---- MODULE Spec2Model ----
(***************************************************************************)
(* eKI security-check service: the encrypted transient store               *)
(* (services/secure_buffer.py), the stage activities                       *)
(* (workflows/activities.py), the workflow orchestrator                    *)
(* (workflows/security_check.py) and the one-shot report endpoint          *)
(* (api/routers/security.py).                                              *)
(***************************************************************************)
EXTENDS Integers, Sequences, FiniteSets, TLC

VARIABLES
    redis,      \* Redis: ref key -> [blob, exp]; a key outside DOMAIN is absent
    nextKey,    \* number of the next uuid4-named ref key
    now,        \* wall clock in seconds
    advances,   \* number of clock advances so far
    secret,     \* settings.api_secret_key the SecureBuffer derives its Fernet key from
    bufOp,      \* the last SecureBuffer call or activity attempt and how it ended
    written,    \* ref key -> payload handed to store() by a direct caller
    faults,     \* infrastructure faults injected so far
    wf,         \* the SecurityCheckWorkflow instance: position and local variables
    history,    \* the durable execution history of the workflow (Temporal events)
    jobs,       \* table job_metadata: job_id -> row
    reports,    \* table report_metadata: report_id -> row
    calls,      \* get_report requests in flight: caller -> position and answer
    worker,     \* the Temporal worker process: stopped, running or crashed
    subs        \* submissions in flight: submitter -> position and answer

bufVars == <<redis, nextKey, now, advances, secret, bufOp, written, faults>>
wfVars == <<wf, history, jobs, reports, calls>>
vars == <<redis, nextKey, now, advances, secret, bufOp, written, faults, wf, history, jobs, reports,
          calls, worker, subs>>

-----------------------------------------------------------------------------
(* Bounds of the model *)

MaxBufKeys == 1      \* store() calls explored on the bare buffer
MaxAdvances == 1     \* clock advances explored
MaxLines == 2        \* lines (paragraphs) of a submitted script
MaxFaults == 1       \* infrastructure faults explored in one pipeline run
MaxSubmitters == 2   \* concurrent submissions
MaxCallers == 2      \* concurrent get_report requests

(* Program constants *)

DEFAULT_TTL == 21600
CUSTOM_TTL == 60
RETRY_STANDARD_ATTEMPTS == 3
RETRY_LLM_ATTEMPTS == 2
RETRY_DELIVERY_ATTEMPTS == 5
DEFAULT_PRIORITY == 5

Secrets == {"secret-a", "secret-b"}

-----------------------------------------------------------------------------
(* JSON encoding: json.dumps(data, default=str) and json.loads *)

\* Python values a payload dict may hold. "uuid" stands for any object the
\* encoder only accepts through default=str; "tuple" is encoded as an array.
PyTypes == {"str", "list", "tuple", "uuid"}
JsonNativeTypes == {"str", "list"}

PyVal(t, v) == [t |-> t, v |-> v]

DumpVal(x) ==
    CASE x.t = "str"   -> [j |-> "string", v |-> x.v]
      [] x.t = "list"  -> [j |-> "array",  v |-> x.v]
      [] x.t = "tuple" -> [j |-> "array",  v |-> x.v]
      [] OTHER         -> [j |-> "string", v |-> x.v]

LoadVal(w) ==
    CASE w.j = "string" -> PyVal("str", w.v)
      [] OTHER          -> PyVal("list", w.v)

\* A payload is a record with a kind. "generic" payloads carry arbitrary
\* Python values; the pipeline's payloads are built from model_dump(mode="json")
\* and str/int/list values only, which the encoder writes unchanged.
JsonDumpsAllStr(p) ==
    IF p.kind = "generic"
    THEN [kind |-> "json", items |-> [i \in DOMAIN p.items |->
                                        [j |-> "string", v |-> p.items[i].v]]]
    ELSE [kind |-> "jsondoc", doc |-> p]

JsonDumps(p) ==
    IF p.kind = "generic"
    THEN [kind |-> "json", items |-> [i \in DOMAIN p.items |-> DumpVal(p.items[i])]]
    ELSE [kind |-> "jsondoc", doc |-> p]

JsonLoads(w) ==
    IF w.kind = "json"
    THEN [kind |-> "generic", items |-> [i \in DOMAIN w.items |-> LoadVal(w.items[i])]]
    ELSE w.doc

IsJsonSerializable(p) ==
    p.kind = "generic" => \A i \in DOMAIN p.items : p.items[i].t \in JsonNativeTypes

-----------------------------------------------------------------------------
(* Fernet: authenticated encryption keyed by the derived secret *)

DeriveFernetKey(sec) == [sha256 |-> sec]

FernetEncrypt(sec, plaintext) ==
    [fkey |-> DeriveFernetKey(sec), pt |-> plaintext, mac |-> "ok"]

FernetValid(sec, token) ==
    token.fkey = DeriveFernetKey(sec) /\ token.mac = "ok"

-----------------------------------------------------------------------------
(* Redis commands used by SecureBuffer *)

Live(r, t, k) == k \in DOMAIN r /\ r[k].exp > t

RedisSetexScalesTtl(r, t, k, ttl, blob) ==
    [x \in DOMAIN r \cup {k} |->
        IF x = k THEN [blob |-> blob, exp |-> t + ttl * DEFAULT_TTL] ELSE r[x]]

RedisSetex(r, t, k, ttl, blob) ==
    [x \in DOMAIN r \cup {k} |-> IF x = k THEN [blob |-> blob, exp |-> t + ttl] ELSE r[x]]

RedisRemove(r, k) == [x \in DOMAIN r \ {k} |-> r[x]]

RedisDelCountsArgs(r, t, ks) ==
    [store |-> [x \in DOMAIN r \ {ks[i] : i \in DOMAIN ks} |-> r[x]], count |-> Len(ks)]

\* DEL k1 k2 ...: removes the keys one after the other, counts the removed ones
RECURSIVE RedisDel(_, _, _)
RedisDel(r, t, ks) ==
    IF ks = <<>> THEN [store |-> r, count |-> 0]
    ELSE LET hit  == Live(r, t, Head(ks))
             rest == RedisDel(IF hit THEN RedisRemove(r, Head(ks)) ELSE r, t, Tail(ks))
         IN  [store |-> rest.store, count |-> rest.count + (IF hit THEN 1 ELSE 0)]

-----------------------------------------------------------------------------
(* SecureBuffer *)

NotFound(msg, k) == [ok |-> FALSE, err |-> "NotFoundException", msg |-> msg, ref_key |-> k]

\* SETEX takes a positive expire time; Redis answers any other one with
\* "ERR invalid expire time", which the client raises as ResponseError
SetexAccepts(ttl) == ttl > 0

\* store(): what Redis holds afterwards (unchanged when setex raised)
SecureBufferStore(r, t, sec, k, p, ttl) ==
    IF SetexAccepts(ttl)
    THEN RedisSetex(r, t, k, ttl, FernetEncrypt(sec, JsonDumps(p)))
    ELSE r

SecureBufferRetrieveEmpty(r, t, sec, k) ==
    IF ~Live(r, t, k) \/ ~FernetValid(sec, r[k].blob)
    THEN [ok |-> TRUE, data |-> [kind |-> "generic", items |-> <<>>]]
    ELSE [ok |-> TRUE, data |-> JsonLoads(r[k].blob.pt)]

SecureBufferRetrieve(r, t, sec, k) ==
    IF ~Live(r, t, k)
    THEN NotFound("Buffer key expired or not found", k)
    ELSE IF ~FernetValid(sec, r[k].blob)
         THEN NotFound("Buffer decryption failed (key rotated or corrupted)", k)
         ELSE [ok |-> TRUE, data |-> JsonLoads(r[k].blob.pt)]

SecureBufferDelete(r, t, ks) ==
    IF ks = <<>>
    THEN [store |-> r, count |-> 0, redis_called |-> FALSE]
    ELSE LET d == RedisDel(r, t, ks)
         IN  [store |-> d.store, count |-> d.count, redis_called |-> TRUE]

-----------------------------------------------------------------------------
(* Python dict helpers *)

PyNone == [py_none |-> TRUE]
EmptyDict == <<>>
NoKey == 0      \* the empty string "" used as default ref key

\* d.get(key, default)
DictGet(d, key, default) == IF key \in DOMAIN d THEN d[key] ELSE default

\* x or {}
OrEmptyDict(x) == IF x = PyNone THEN EmptyDict ELSE x

\* the workflow before it is started: no locals bound yet
WfIdle ==
    [pc |-> "idle", job_data |-> EmptyDict, workflow_id |-> "", attempt |-> 0, i |-> 0,
     text_result |-> EmptyDict, split_result |-> EmptyDict,
     scene_ref_keys |-> <<>>, title |-> PyNone,
     parsed_ref_key |-> NoKey, total_scenes |-> 0,
     all_findings |-> <<>>, report_result |-> EmptyDict, result |-> EmptyDict]

Callers == 1..MaxCallers

\* no request has been received yet
NoCalls ==
    [c \in Callers |-> [pc |-> "idle", user |-> "", report_id |-> "",
                        ref_key |-> NoKey, waited |-> FALSE, existed |-> FALSE,
                        status |-> 0, fetch |-> "none",
                        body |-> PyNone]]

-----------------------------------------------------------------------------
(* The bare buffer driven by arbitrary callers *)

\* the submitters of concurrent POST /v1/security/check:async requests
Submitters == 1..MaxSubmitters

NoSubs ==
    [s \in Submitters |-> [pc |-> "idle", idempotency_key |-> "", job_id |-> <<>>,
                           ref_key |-> NoKey, started |-> FALSE, status |-> 0,
                           returned |-> <<>>, endpoint |-> "", authorization |-> ""]]

GenericPayloads ==
    { [kind |-> "generic", items |-> <<PyVal(t, "x")>>] : t \in PyTypes }

NoOp == [op |-> "none"]

Init ==
    /\ redis = <<>>
    /\ nextKey = 1
    /\ now = 0
    /\ advances = 0
    /\ secret = "secret-a"
    /\ bufOp = NoOp
    /\ written = <<>>
    /\ faults = 0
    /\ wf = WfIdle
    /\ history = <<>>
    /\ jobs = <<>>
    /\ reports = <<>>
    /\ calls = NoCalls
    /\ worker = "running"
    /\ subs = NoSubs

BufStore(p, ttl) ==
    /\ nextKey <= MaxBufKeys
    /\ redis' = SecureBufferStore(redis, now, secret, nextKey, p, ttl)
    /\ nextKey' = IF SetexAccepts(ttl) THEN nextKey + 1 ELSE nextKey
    /\ written' = IF SetexAccepts(ttl)
                  THEN [k \in DOMAIN written \cup {nextKey} |->
                          IF k = nextKey THEN p ELSE written[k]]
                  ELSE written
    /\ bufOp' = [op |-> "store", key |-> nextKey, payload |-> p, ttl |-> ttl,
                 raised |-> ~SetexAccepts(ttl)]
    /\ UNCHANGED <<now, advances, worker, subs, secret, faults, wf, history, jobs, reports, calls>>

BufRetrieve(k) ==
    /\ bufOp' = [op |-> "retrieve", key |-> k,
                 res |-> SecureBufferRetrieve(redis, now, secret, k)]
    /\ UNCHANGED <<redis, nextKey, now, advances, worker, subs, secret, written, faults, wf, history, jobs, reports, calls>>

BufDelete(ks) ==
    LET d == SecureBufferDelete(redis, now, ks)
    IN  /\ redis' = d.store
        /\ bufOp' = [op |-> "delete", keys |-> ks, count |-> d.count,
                     redis_called |-> d.redis_called,
                     pre |-> {k \in DOMAIN redis : Live(redis, now, k)}]
        /\ UNCHANGED <<nextKey, now, advances, worker, subs, secret, written, faults, wf, history, jobs, reports, calls>>

\* time passes; Redis drops the entries whose TTL has elapsed
Advance(d) ==
    /\ advances < MaxAdvances
    /\ advances' = advances + 1
    /\ now' = now + d
    /\ redis' = [k \in {x \in DOMAIN redis : redis[x].exp > now + d} |-> redis[k]]
    /\ bufOp' = NoOp
    /\ UNCHANGED <<nextKey, secret, written, faults, wf, history, jobs, reports, calls,
                   worker, subs>>

\* the operator rotates API_SECRET_KEY and restarts the services
RotateSecret(s) ==
    /\ s # secret
    /\ secret' = s
    /\ bufOp' = NoOp
    /\ UNCHANGED <<redis, nextKey, now, advances, worker, subs, written, faults, wf, history, jobs, reports, calls>>

\* a stored blob is damaged in the cache
CorruptBlob(k) ==
    /\ k \in DOMAIN redis
    /\ redis[k].blob.mac = "ok"
    /\ redis' = [redis EXCEPT ![k].blob.mac = "bad"]
    /\ bufOp' = NoOp
    /\ UNCHANGED <<nextKey, now, advances, worker, subs, secret, written, faults, wf, history, jobs, reports, calls>>

\* the keys callers may name: the stored ones and one that never is
BufKeys == 1..(MaxBufKeys + 1)

\* delete() is called with no key, one key or two keys (possibly the same one)
DelArgs == {<<>>} \cup {<<a>> : a \in BufKeys} \cup {<<a, b>> : a, b \in BufKeys}

NextBuffer ==
    \/ \E p \in GenericPayloads, ttl \in {0, CUSTOM_TTL, DEFAULT_TTL} : BufStore(p, ttl)
    \/ \E k \in BufKeys : BufRetrieve(k)
    \/ \E ks \in DelArgs : BufDelete(ks)
    \/ Advance(CUSTOM_TTL)
    \/ \E s \in Secrets : RotateSecret(s)
    \/ \E k \in BufKeys : CorruptBlob(k)

SpecBuffer == Init /\ [][NextBuffer]_vars

-----------------------------------------------------------------------------
(* Scripts and the payloads the stages pass through the buffer *)

Contents == {"text-1", "text-2"}       \* what the screenplay says
Users == {"user-1"}
DeliveryModes == {"pull", "push"}

\* A script is its lines: "H" a scene heading (FDX Scene Heading paragraph,
\* INT./EXT. marker line of a PDF), "T" any other non-blank line.
LineSeqs == UNION { [1..n -> {"H", "T"}] : n \in 0..MaxLines }

Scripts ==
    [fmt : {"fdx", "pdf"}, lines : LineSeqs, content : Contents, wellformed : {TRUE}]
    \cup [fmt : {"fdx", "pdf"}, lines : {<<>>}, content : Contents, wellformed : {FALSE}]

B64Encode(bytes) == [b64 |-> bytes]
B64Decode(str) == str.b64

Headings(lines) == {j \in DOMAIN lines : lines[j] = "H"}

\* positions of the headings in increasing order
\* F(v) with v evaluated a single time, however often F uses it
Once(v, F(_)) == CHOOSE y \in {F(x) : x \in {v}} : TRUE

SortedSeq(S) ==
    CHOOSE seq \in [1..Cardinality(S) -> S] :
        \A i, j \in 1..Cardinality(S) : i < j => seq[i] < seq[j]

\* text taken from the script: which script, which part of it
Excerpt(content, part) == [content |-> content, part |-> part]

\* FDXParser.parse: one scene per Scene Heading paragraph
FdxParse(script) ==
    LET hs == SortedSeq(Headings(script.lines))
    IN  [kind |-> "parsed_script", format |-> "fdx", title |-> PyNone,
         total_scenes |-> Len(hs),
         scenes |-> [n \in DOMAIN hs |->
                       [number |-> n, text |-> Excerpt(script.content, hs[n]),
                        parse_confidence |-> 10]]]

\* parsers.pdf.extract_pdf_text
ExtractPdfText(script) == [lines |-> script.lines, content |-> script.content]

\* str.strip() on a text given by its lines: leading and trailing blank lines
\* ("B") go, the lines between stay
RECURSIVE LStrip(_)
LStrip(lines) ==
    IF lines # <<>> /\ Head(lines) = "B" THEN LStrip(Tail(lines)) ELSE lines

RECURSIVE RStrip(_)
RStrip(lines) ==
    IF lines # <<>> /\ lines[Len(lines)] = "B"
    THEN RStrip(SubSeq(lines, 1, Len(lines) - 1)) ELSE lines

Strip(lines) == RStrip(LStrip(lines))

\* split_into_scenes, given the test that decides whether the text before the
\* first marker becomes a block
SplitWith(full_text, keep_preamble) ==
    LET lines == full_text.lines
        Blocks(hs) ==
            IF Strip(lines) = <<>> THEN <<>>
            ELSE IF hs = <<>>
            THEN << [index |-> 0, text |-> Excerpt(full_text.content, 0),
                     heading_line |-> "", is_preamble |-> TRUE, lines |-> Strip(lines)] >>
            ELSE LET preamble == IF keep_preamble
                                 THEN << [index |-> 0,
                                          text |-> Excerpt(full_text.content, 0),
                                          heading_line |-> "", is_preamble |-> TRUE,
                                          lines |-> Strip(SubSeq(lines, 1, hs[1] - 1))] >>
                                 ELSE <<>>
                     idx0 == Len(preamble)
                     end(n) == IF n + 1 <= Len(hs) THEN hs[n + 1] - 1 ELSE Len(lines)
                 IN  preamble \o
                     [n \in DOMAIN hs |->
                        [index |-> idx0 + n - 1,
                         text |-> Excerpt(full_text.content, hs[n]),
                         heading_line |-> "heading", is_preamble |-> FALSE,
                         lines |-> Strip(SubSeq(lines, hs[n], end(n)))]]
    IN  Once(SortedSeq(Headings(lines)), Blocks)

\* split_into_scenes with "if preamble_text:" testing the text before it is stripped
SplitIntoScenesKeepsBlankPreamble(full_text) ==
    SplitWith(full_text, Headings(full_text.lines) # {}
                           /\ SortedSeq(Headings(full_text.lines))[1] > 1)

\* parsers.pdf_scene_splitter.split_into_scenes
SplitIntoScenes(full_text) ==
    SplitWith(full_text, Headings(full_text.lines) # {}
                           /\ Strip(SubSeq(full_text.lines, 1,
                                       SortedSeq(Headings(full_text.lines))[1] - 1)) # <<>>)

-----------------------------------------------------------------------------
(* Stage activities.  Each is one execution attempt: it returns what the
   attempt left in Redis and either its result or the exception it raised.
   fp names where an infrastructure fault (Redis unreachable, worker lost)
   hits the attempt; "none" is the undisturbed run. *)

Retrieve(r, k) == SecureBufferRetrieve(r, now, secret, k)
\* store with a ref key derived from the job instead of a fresh uuid4
StoreAtFixedKey(r, k, p) == SecureBufferStore(r, now, secret, 1, p, DEFAULT_TTL)

Store(r, k, p) == SecureBufferStore(r, now, secret, k, p, DEFAULT_TTL)
Delete(r, k) == SecureBufferDelete(r, now, <<k>>).store

Raised(r, nk, exc) == [ok |-> FALSE, store |-> r, nk |-> nk, val |-> exc]
Returned(r, nk, res) == [ok |-> TRUE, store |-> r, nk |-> nk, val |-> res]
\* the attempt ran to its end but its completion never reached the server
ResultLost(r, nk) == Raised(r, nk, "activity result lost")

Fault(at, j) == [at |-> at, j |-> j]
NoFault == Fault("none", 0)

ParseFdxActivity(r, nk, job_data, fp) ==
    LET ref_key == DictGet(job_data, "ref_key", NoKey)
        raw     == Retrieve(r, ref_key)
    IN  IF fp.at = "retrieve" THEN Raised(r, nk, "ConnectionError")
        ELSE IF ~raw.ok THEN Raised(r, nk, raw.err)
        ELSE LET script == B64Decode(raw.data.script_content)
             IN  IF ~script.wellformed THEN Raised(r, nk, "ParsingException")
                 ELSE IF fp.at = "store" THEN Raised(r, nk, "ConnectionError")
                 ELSE LET parsed == FdxParse(script)
                          r1     == Store(r, nk, parsed)
                      IN  IF fp.at = "delete" THEN Raised(r1, nk + 1, "ConnectionError")
                          ELSE IF fp.at = "lost" THEN ResultLost(Delete(r1, ref_key), nk + 1)
                          ELSE Returned(Delete(r1, ref_key), nk + 1,
                                        [parsed_ref_key |-> nk,
                                         total_scenes |-> parsed.total_scenes])

AnalyzeSceneRiskActivity(r, nk, job_data, fp, llm) ==
    LET parsed_ref_key == DictGet(job_data, "parsed_ref_key", NoKey)
        scene_index    == DictGet(job_data, "scene_index", 0)
        parsed         == Retrieve(r, parsed_ref_key)
    IN  IF fp.at = "retrieve" THEN Raised(r, nk, "ConnectionError")
        ELSE IF ~parsed.ok THEN Raised(r, nk, parsed.err)
        ELSE LET scenes == DictGet(parsed.data, "scenes", <<>>)
             IN  IF scene_index >= Len(scenes)
                 THEN IF fp.at = "lost" THEN ResultLost(r, nk)
                      ELSE Returned(r, nk, [findings |-> <<>>, scene_index |-> scene_index])
                 ELSE LET scene == scenes[scene_index + 1]
                          found == IF llm = "finding"
                                   THEN << [risk_level |-> "high",
                                            description |-> scene.text,
                                            scene_number |-> scene.number] >>
                                   ELSE <<>>
                      IN  IF fp.at = "lost" THEN ResultLost(r, nk)
                          ELSE Returned(r, nk, [scene_index |-> scene_index,
                                                scene_number |-> scene.number,
                                                findings |-> found])

\* flat_findings of aggregate_report_activity
RECURSIVE Flatten(_)
Flatten(all_findings) ==
    IF all_findings = <<>> THEN <<>>
    ELSE DictGet(Head(all_findings), "findings", <<>>) \o Flatten(Tail(all_findings))

RiskLevels == {"critical", "high", "medium", "low", "info"}

\* f.get("risk_level", "info") of every finding of the list
LevelsOf(findings) == {DictGet(findings[j], "risk_level", "info") : j \in DOMAIN findings}

\* build_report_dict with "risk_summary[level] = 1" in place of "+ 1"
BuildReportDictMarksPresence(report_id, project_id, script_format, findings) ==
    [report_id |-> report_id, project_id |-> project_id, script_format |-> script_format,
     risk_summary |-> [l \in RiskLevels \cup LevelsOf(findings) |->
                         IF l \in LevelsOf(findings) THEN 1 ELSE 0],
     total_findings |-> Len(findings), findings |-> findings]

\* services.report_generator.build_report_dict: the five levels start at 0 and
\* every finding adds one to its level, a level outside the five gets its own key
BuildReportDict(report_id, project_id, script_format, findings) ==
    [report_id |-> report_id, project_id |-> project_id, script_format |-> script_format,
     risk_summary |-> [l \in RiskLevels \cup LevelsOf(findings) |->
                         Cardinality({j \in DOMAIN findings :
                                        DictGet(findings[j], "risk_level", "info") = l})],
     total_findings |-> Len(findings), findings |-> findings]

AggregateReportActivityKeepsParsed(r, nk, job_data, job_metadata, fp) ==
    LET flat_findings == Flatten(DictGet(job_data, "all_findings", <<>>))
        report  == BuildReportDict(DictGet(job_metadata, "report_id", ""),
                                   DictGet(job_metadata, "project_id", ""),
                                   DictGet(job_metadata, "script_format", "fdx"),
                                   flat_findings)
        package == [kind |-> "report_package", report |-> report,
                    pdf_base64 |-> [pdf_of |-> report]]
    IN  Returned(Store(r, nk, package), nk + 1,
                 [report_ref_key |-> nk,
                  report_id |-> DictGet(job_metadata, "report_id", PyNone),
                  total_findings |-> Len(flat_findings)])

AggregateReportActivity(r, nk, job_data, job_metadata, fp) ==
    LET all_findings   == DictGet(job_data, "all_findings", <<>>)
        parsed_ref_key == DictGet(job_data, "parsed_ref_key", NoKey)
        Package(report) ==
            [kind |-> "report_package", report |-> report,
             pdf_base64 |-> IF fp.at = "pdf" THEN PyNone ELSE [pdf_of |-> report]]
        Rest(flat_findings) ==
            LET report  == BuildReportDict(DictGet(job_metadata, "report_id", ""),
                                           DictGet(job_metadata, "project_id", ""),
                                           DictGet(job_metadata, "script_format", "fdx"),
                                           flat_findings)
                r1      == Store(r, nk, Once(report, Package))
                r2      == IF parsed_ref_key # NoKey THEN Delete(r1, parsed_ref_key) ELSE r1
            IN  IF fp.at = "store" THEN Raised(r, nk, "ConnectionError")
                ELSE IF fp.at = "delete" /\ parsed_ref_key # NoKey
                THEN Raised(r1, nk + 1, "ConnectionError")
                ELSE IF fp.at = "lost" THEN ResultLost(r2, nk + 1)
                ELSE Returned(r2, nk + 1,
                              [report_ref_key |-> nk,
                               report_id |-> DictGet(job_metadata, "report_id", PyNone),
                               total_findings |-> Len(flat_findings)])
    IN  Once(Flatten(all_findings), Rest)

ExtractPdfTextActivity(r, nk, job_data, fp) ==
    LET ref_key == DictGet(job_data, "ref_key", NoKey)
        raw     == Retrieve(r, ref_key)
    IN  IF fp.at = "retrieve" THEN Raised(r, nk, "ConnectionError")
        ELSE IF ~raw.ok THEN Raised(r, nk, raw.err)
        ELSE LET script == B64Decode(raw.data.script_content)
             IN  IF ~script.wellformed THEN Raised(r, nk, "ParsingException")
                 ELSE IF fp.at = "store" THEN Raised(r, nk, "ConnectionError")
                 ELSE LET full_text == ExtractPdfText(script)
                          r1 == Store(r, nk, [kind |-> "text", full_text |-> full_text])
                      IN  IF fp.at = "delete" THEN Raised(r1, nk + 1, "ConnectionError")
                          ELSE IF fp.at = "lost" THEN ResultLost(Delete(r1, ref_key), nk + 1)
                          ELSE Returned(Delete(r1, ref_key), nk + 1,
                                        [text_ref_key |-> nk,
                                         ocr_pages_skipped |-> <<>>,
                                         text_length |-> Len(full_text.lines)])

SplitScenesActivity(r, nk, job_data, fp) ==
    LET text_ref_key == DictGet(job_data, "text_ref_key", NoKey)
        text_data    == Retrieve(r, text_ref_key)
    IN  IF fp.at = "retrieve" THEN Raised(r, nk, "ConnectionError")
        ELSE IF ~text_data.ok THEN Raised(r, nk, text_data.err)
        ELSE IF fp.at = "store" THEN Raised(r, nk, "ConnectionError")
        ELSE LET Rest(blocks) ==
                   LET r1  == Store(r, nk, [kind |-> "blocks", blocks |-> blocks])
                       res == [blocks_ref_key |-> nk,
                               block_count |-> Len(blocks),
                               scene_count |-> Cardinality({j \in DOMAIN blocks :
                                                              ~blocks[j].is_preamble}),
                               has_preamble |-> \E j \in DOMAIN blocks :
                                                   blocks[j].is_preamble]
                   IN  IF fp.at = "delete" THEN Raised(r1, nk + 1, "ConnectionError")
                       ELSE IF fp.at = "lost"
                       THEN ResultLost(Delete(r1, text_ref_key), nk + 1)
                       ELSE Returned(Delete(r1, text_ref_key), nk + 1, res)
             IN  Once(SplitIntoScenes(text_data.data.full_text), Rest)

\* parsers.pdf_llm_structurer._fallback_scene_data
FallbackSceneData ==
    [location |-> "UNKNOWN", location_type |-> "UNKNOWN", time_of_day |-> "UNKNOWN"]

\* llm is what the model call gives: "ok" a structured answer, "fail" none
StructureSceneLlmActivity(r, nk, job_data, fp, llm) ==
    LET blocks_ref_key == DictGet(job_data, "blocks_ref_key", NoKey)
        block_index    == DictGet(job_data, "block_index", 0)
        blocks_data    == Retrieve(r, blocks_ref_key)
    IN  IF fp.at = "retrieve" THEN Raised(r, nk, "ConnectionError")
        ELSE IF ~blocks_data.ok THEN Raised(r, nk, blocks_data.err)
        ELSE LET blocks == blocks_data.data.blocks
             IN  IF block_index >= Len(blocks)
                 THEN IF fp.at = "lost" THEN ResultLost(r, nk)
                      ELSE Returned(r, nk, [error |-> "Block index out of range"])
                 ELSE LET block == blocks[block_index + 1]
                      IN  IF block.is_preamble
                          THEN IF fp.at = "lost" THEN ResultLost(r, nk)
                               ELSE Returned(r, nk,
                                      [is_preamble |-> TRUE,
                                       title |-> IF llm = "ok"
                                                 THEN Excerpt(block.text.content, "title")
                                                 ELSE PyNone])
                          ELSE LET fields == IF llm = "ok"
                                             THEN [location |-> "LOCATION",
                                                   location_type |-> "INT",
                                                   time_of_day |-> "DAY"]
                                             ELSE FallbackSceneData
                                   scene_data == [kind |-> "scene",
                                                  heading_line |-> block.heading_line,
                                                  text |-> block.text,
                                                  fields |-> fields,
                                                  confidence |-> IF fields.location # "UNKNOWN"
                                                                 THEN 10 ELSE 5]
                                   r1 == Store(r, nk, scene_data)
                               IN  IF fp.at = "store" THEN Raised(r, nk, "ConnectionError")
                                   ELSE IF fp.at = "lost" THEN ResultLost(r1, nk + 1)
                                   ELSE Returned(r1, nk + 1,
                                          [is_preamble |-> FALSE,
                                           scene_ref_key |-> nk,
                                           block_index |-> block_index])

\* the loop of aggregate_script_activity: each scene ref is retrieved, turned
\* into a ParsedScene and deleted before the next one is looked at
RECURSIVE ConsumeScenes(_, _, _, _)
ConsumeScenes(r, keys, n, fp) ==
    IF keys = <<>> THEN [ok |-> TRUE, store |-> r, scenes |-> <<>>, err |-> ""]
    ELSE LET scene_data == Retrieve(r, Head(keys))
         IN  IF fp.at = "retrieve" /\ fp.j = n + 1
             THEN [ok |-> FALSE, store |-> r, scenes |-> <<>>, err |-> "ConnectionError"]
             ELSE IF ~scene_data.ok
             THEN [ok |-> FALSE, store |-> r, scenes |-> <<>>, err |-> scene_data.err]
             ELSE LET scene == [number |-> n + 1,
                                heading |-> scene_data.data.heading_line,
                                location |-> DictGet(scene_data.data.fields,
                                                     "location", "UNKNOWN"),
                                text |-> scene_data.data.text,
                                parse_confidence |-> DictGet(scene_data.data,
                                                             "confidence", 0)]
                      With(rest) == [ok |-> rest.ok, store |-> rest.store,
                                     scenes |-> <<scene>> \o rest.scenes, err |-> rest.err]
                  IN  Once(ConsumeScenes(Delete(r, Head(keys)), Tail(keys), n + 1, fp),
                           With)

AggregateScriptActivity(r, nk, job_data, fp) ==
    LET scene_ref_keys == DictGet(job_data, "scene_ref_keys", <<>>)
        title          == DictGet(job_data, "title", PyNone)
        blocks_ref_key == DictGet(job_data, "blocks_ref_key", NoKey)
        After(loop) ==
            IF ~loop.ok THEN Raised(loop.store, nk, loop.err)
            ELSE IF fp.at = "store" THEN Raised(loop.store, nk, "ConnectionError")
            ELSE LET script == [kind |-> "parsed_script", format |-> "pdf",
                                title |-> title,
                                total_scenes |-> Len(loop.scenes), scenes |-> loop.scenes]
                     r1     == Store(loop.store, nk, script)
                     r2     == IF blocks_ref_key # NoKey
                               THEN Delete(r1, blocks_ref_key) ELSE r1
                 IN  IF fp.at = "delete" /\ blocks_ref_key # NoKey
                     THEN Raised(r1, nk + 1, "ConnectionError")
                     ELSE IF fp.at = "lost" THEN ResultLost(r2, nk + 1)
                     ELSE Returned(r2, nk + 1,
                                   [parsed_ref_key |-> nk,
                                    total_scenes |-> Len(loop.scenes)])
    IN  Once(ConsumeScenes(r, scene_ref_keys, 0, fp), After)

-----------------------------------------------------------------------------
(* deliver_report_activity: the database transaction, then push or pull *)

ScriptFormats == {"fdx", "pdf"}

PrimaryKeyIgnored(reportsT, report_id) == TRUE

\* report_metadata.report_id is the primary key: a second INSERT for the same
\* report raises IntegrityError
PrimaryKeyFree(reportsT, report_id) == report_id \notin DOMAIN reportsT

\* the INSERT of ReportMetadata and the UPDATE of JobMetadata commit together
\* or not at all; any exception is logged as non-fatal and swallowed
\* a delivery that removes the job's row instead of updating it
DeliverDbDropsJob(jobsT, reportsT, report_data, config, db) ==
    [jobs |-> <<>>, reports |-> reportsT]

DeliverDb(jobsT, reportsT, report_data, config, db) ==
    LET report_id     == DictGet(report_data, "report_id", "")
        job_id        == DictGet(config, "job_id", "")
        script_format == DictGet(config, "script_format", "fdx")
        row == [report_id |-> report_id,
                job_id |-> job_id,
                project_id |-> DictGet(config, "project_id", ""),
                user_id |-> DictGet(config, "user_id", ""),
                script_format |-> script_format,
                total_findings |-> DictGet(report_data, "total_findings", 0),
                report_ref_key |-> DictGet(report_data, "report_ref_key", NoKey),
                delivery_mode |-> DictGet(config, "delivery_mode", "pull"),
                is_retrieved |-> FALSE,
                retrieved_at |-> PyNone]
        committed ==
            /\ db = "up"
            /\ script_format \in ScriptFormats    \* ScriptFormat(script_format)
            /\ job_id # ""                        \* report_metadata.job_id is NOT NULL
            /\ report_id # ""
            /\ PrimaryKeyFree(reportsT, report_id)
    IN  IF committed
        THEN [jobs |-> [j \in DOMAIN jobsT |->
                          IF j = job_id
                          THEN [jobsT[j] EXCEPT !.status = "completed",
                                                !.progress_percentage = 100,
                                                !.report_id = report_id]
                          ELSE jobsT[j]],
              reports |-> [x \in DOMAIN reportsT \cup {report_id} |->
                             IF x = report_id THEN row ELSE reportsT[x]]]
        ELSE [jobs |-> jobsT, reports |-> reportsT]

\* http is the answer of ePro to the POST: "ok" a 2xx, "fail" anything else
DeliverReportActivity(r, nk, report_data, delivery_config, fp, http) ==
    LET report_ref_key == DictGet(report_data, "report_ref_key", NoKey)
        report_id      == DictGet(report_data, "report_id", "")
        config         == OrEmptyDict(delivery_config)
        delivery_mode  == DictGet(config, "delivery_mode", "pull")
        package        == Retrieve(r, report_ref_key)
    IN  IF delivery_mode = "push"
        THEN IF fp.at = "retrieve" \/ ~package.ok \/ http # "ok"
             THEN IF fp.at = "lost" THEN ResultLost(r, nk)
                  ELSE Returned(r, nk, [delivered |-> FALSE, delivery_mode |-> "push",
                                        error |-> "push failed"])
             ELSE IF fp.at = "delete"
             THEN Returned(r, nk, [delivered |-> FALSE, delivery_mode |-> "push",
                                   error |-> "ConnectionError"])
             ELSE IF fp.at = "lost" THEN ResultLost(Delete(r, report_ref_key), nk)
             ELSE Returned(Delete(r, report_ref_key), nk,
                           [delivered |-> TRUE, delivery_mode |-> "push"])
        ELSE IF fp.at = "lost" THEN ResultLost(r, nk)
             ELSE Returned(r, nk, [delivered |-> TRUE, delivery_mode |-> "pull",
                                   report_url |-> report_id])

-----------------------------------------------------------------------------
(* SecurityCheckWorkflow: what the orchestrator does with each activity result *)

Sched(act, input) == [type |-> "ActivityTaskScheduled", activity |-> act, input |-> input]
Done(act, result) == [type |-> "ActivityTaskCompleted", activity |-> act, result |-> result]
Failed(act, err) == [type |-> "ActivityTaskFailed", activity |-> act, failure |-> err]
WorkflowStarted(input) == [type |-> "WorkflowExecutionStarted", input |-> input]
WorkflowCompleted(result) == [type |-> "WorkflowExecutionCompleted", result |-> result]

RunExceptNoError(st, e) ==
    [st EXCEPT !.pc = "done",
               !.result = [status |-> "failed", workflow_id |-> st.workflow_id]]

\* run(): except Exception as e -> the failed result
RunExcept(st, e) ==
    [st EXCEPT !.pc = "done",
               !.result = [status |-> "failed", error |-> e,
                           workflow_id |-> st.workflow_id]]

ActivityErrorIgnored(st, act, err) ==
    [st EXCEPT !.pc = "aggregate_report", !.attempt = 1]

\* execute_activity raises ActivityError once the retry policy is exhausted;
\* nothing of _run_fdx / _run_pdf after the await runs
ActivityError(st, act, err) == RunExcept(st, err)

\* _analyze_scenes: for i in range(total_scenes)
StartAnalyze(st, parsed_ref_key, total_scenes) ==
    [st EXCEPT !.parsed_ref_key = parsed_ref_key,
               !.total_scenes = total_scenes,
               !.all_findings = <<>>,
               !.i = 0,
               !.attempt = 1,
               !.pc = IF total_scenes > 0 THEN "analyze_scene_risk" ELSE "aggregate_report"]

AfterParseFdxSkipsAnalysis(st, parsed_result) ==
    [StartAnalyze(st, parsed_result.parsed_ref_key, parsed_result.total_scenes)
        EXCEPT !.pc = "aggregate_report"]

AfterParseFdx(st, parsed_result) ==
    StartAnalyze(st, parsed_result.parsed_ref_key, parsed_result.total_scenes)

AfterAnalyzePrepends(st, finding) ==
    [st EXCEPT !.all_findings = <<finding>> \o @,
               !.i = @ + 1,
               !.attempt = 1,
               !.pc = IF st.i + 1 < st.total_scenes
                      THEN "analyze_scene_risk" ELSE "aggregate_report"]

AfterAnalyze(st, finding) ==
    [st EXCEPT !.all_findings = Append(@, finding),
               !.i = @ + 1,
               !.attempt = 1,
               !.pc = IF st.i + 1 < st.total_scenes
                      THEN "analyze_scene_risk" ELSE "aggregate_report"]

AfterAggregateReport(st, report_result) ==
    [st EXCEPT !.report_result = report_result, !.attempt = 1, !.pc = "deliver_report"]

AfterDeliver(st, delivery_result) ==
    [st EXCEPT !.pc = "done",
               !.result = [status |-> "completed",
                           report_id |-> DictGet(st.report_result, "report_id", PyNone),
                           total_findings |-> DictGet(st.report_result,
                                                      "total_findings", PyNone),
                           delivered |-> DictGet(delivery_result, "delivered", PyNone),
                           workflow_id |-> st.workflow_id]]

AfterExtract(st, text_result) ==
    [st EXCEPT !.text_result = text_result, !.attempt = 1, !.pc = "split_scenes"]

\* for i in range(block_count)
AfterSplit(st, split_result) ==
    [st EXCEPT !.split_result = split_result,
               !.scene_ref_keys = <<>>,
               !.title = PyNone,
               !.i = 0,
               !.attempt = 1,
               !.pc = IF split_result.block_count > 0
                      THEN "structure_scene_llm" ELSE "aggregate_script"]

AfterStructure(st, llm_result) ==
    LET next == [st EXCEPT !.i = @ + 1,
                           !.attempt = 1,
                           !.pc = IF st.i + 1 < st.split_result.block_count
                                  THEN "structure_scene_llm" ELSE "aggregate_script"]
    IN  IF DictGet(llm_result, "is_preamble", FALSE)
        THEN [next EXCEPT !.title = DictGet(llm_result, "title", PyNone)]
        ELSE IF "scene_ref_key" \in DOMAIN llm_result
        THEN [next EXCEPT !.scene_ref_keys = Append(@, llm_result.scene_ref_key)]
        ELSE RunExcept(st, "KeyError")

AfterAggregateScriptCountsBlocks(st, agg_result) ==
    StartAnalyze(st, agg_result.parsed_ref_key, st.split_result.block_count)

AfterAggregateScript(st, agg_result) ==
    StartAnalyze(st, agg_result.parsed_ref_key, agg_result.total_scenes)

\* the job_metadata dict of _report_and_deliver
JobMetadataOf(job_data) ==
    [report_id |-> DictGet(job_data, "report_id", PyNone),
     project_id |-> DictGet(job_data, "project_id", PyNone),
     user_id |-> DictGet(job_data, "user_id", PyNone),
     script_format |-> DictGet(job_data, "script_format", PyNone)]

\* the second argument the workflow hands to deliver_report_activity
DeliveryConfigOf(job_data) == DictGet(job_data, "callback_url", PyNone)

\* the retry policy each activity is executed with
MaxAttempts(act) ==
    CASE act \in {"structure_scene_llm", "analyze_scene_risk"} -> RETRY_LLM_ATTEMPTS
      [] act = "deliver_report" -> RETRY_DELIVERY_ATTEMPTS
      [] OTHER -> RETRY_STANDARD_ATTEMPTS

\* infrastructure faults an attempt may meet, while the budget lasts
FaultChoices(points) ==
    {NoFault} \cup (IF faults < MaxFaults THEN {Fault(p, 0) : p \in points} ELSE {})

Retrievable(r, k) == Retrieve(r, k).ok

\* the ref keys the activity at st.pc is handed
InputKeys(st) ==
    CASE st.pc \in {"parse_fdx", "extract_pdf_text"} -> {DictGet(st.job_data, "ref_key", NoKey)}
      [] st.pc = "split_scenes" -> {DictGet(st.text_result, "text_ref_key", NoKey)}
      [] st.pc = "structure_scene_llm" -> {st.split_result.blocks_ref_key}
      [] st.pc = "aggregate_script" ->
            {st.scene_ref_keys[j] : j \in DOMAIN st.scene_ref_keys}
                \cup {st.split_result.blocks_ref_key}
      [] st.pc \in {"analyze_scene_risk", "aggregate_report"} -> {st.parsed_ref_key}
      [] st.pc = "deliver_report" -> {DictGet(st.report_result, "report_ref_key", NoKey)}
      [] OTHER -> {}

\* One execution attempt of the activity at wf.pc with outcome out: a result
\* lets the workflow go on with cont, an exception is retried while the policy
\* allows and then fails the workflow.
Attempt(act, input, out, fp, cont) ==
    LET sched == IF wf.attempt = 1 THEN <<Sched(act, input)>> ELSE <<>>
    IN  /\ redis' = out.store
        /\ nextKey' = out.nk
        /\ faults' = faults + (IF fp.at = "none" THEN 0 ELSE 1)
        /\ IF out.ok
           THEN /\ wf' = cont
                /\ history' = history \o sched \o <<Done(act, out.val)>> \o
                                (IF cont.pc = "done"
                                 THEN <<WorkflowCompleted(cont.result)>> ELSE <<>>)
           ELSE IF wf.attempt < MaxAttempts(act)
           THEN /\ wf' = [wf EXCEPT !.attempt = @ + 1]
                /\ history' = history \o sched
           ELSE /\ wf' = ActivityError(wf, act, out.val)
                /\ history' = history \o sched \o <<Failed(act, out.val)>> \o
                                <<WorkflowCompleted(ActivityError(wf, act, out.val).result)>>
        /\ bufOp' = [op |-> "activity", activity |-> act, index |-> wf.i,
                     attempt |-> wf.attempt, fault |-> fp, raised |-> ~out.ok,
                     error |-> IF out.ok THEN "" ELSE out.val,
                     inputs |-> {k \in InputKeys(wf) : Retrievable(redis, k)},
                     missing |-> {k \in InputKeys(wf) : ~Retrievable(redis, k)}]
        /\ UNCHANGED <<now, advances, worker, subs, secret, written>>

-----------------------------------------------------------------------------
(* The pipeline: one submission, then the workflow stage by stage *)

JOB_ID == "job-1"
REPORT_ID == "report-1"
PROJECT_ID == "project-1"

\* POST /v1/security/check:async
Submit(script, user, delivery) ==
    /\ wf.pc = "idle"
    /\ JOB_ID \notin DOMAIN jobs
    /\ LET ref_key  == nextKey
           job_data == [ref_key |-> ref_key,
                        script_format |-> script.fmt,
                        project_id |-> PROJECT_ID,
                        job_id |-> JOB_ID,
                        report_id |-> REPORT_ID,
                        user_id |-> user,
                        priority |-> DEFAULT_PRIORITY,
                        delivery_mode |-> delivery,
                        metadata |-> EmptyDict]
       IN  /\ jobs' = [j \in {JOB_ID} |->
                         [job_id |-> JOB_ID, project_id |-> PROJECT_ID,
                          script_format |-> script.fmt, status |-> "pending",
                          user_id |-> user, priority |-> DEFAULT_PRIORITY,
                          progress_percentage |-> 0, report_id |-> "",
                          delivery_mode |-> delivery]]
           /\ redis' = Store(redis, ref_key,
                             [kind |-> "script", script_content |-> B64Encode(script)])
           /\ nextKey' = nextKey + 1
           /\ wf' = [WfIdle EXCEPT !.pc = "run", !.job_data = job_data,
                                   !.workflow_id = JOB_ID]
           /\ history' = <<WorkflowStarted(job_data)>>
    /\ UNCHANGED <<now, advances, worker, subs, secret, bufOp, written, faults, reports, calls>>

\* run(): route on script_format
WfRun ==
    /\ wf.pc = "run"
    /\ wf' = [wf EXCEPT !.attempt = 1,
                        !.pc = IF DictGet(wf.job_data, "script_format", "fdx") = "pdf"
                               THEN "extract_pdf_text" ELSE "parse_fdx"]
    /\ UNCHANGED <<redis, nextKey, now, advances, worker, subs, secret, bufOp, written, faults,
                   history, jobs, reports, calls>>

ParseFdx ==
    /\ wf.pc = "parse_fdx"
    /\ \E fp \in FaultChoices({"retrieve", "store", "delete", "lost"}) :
         \E out \in {ParseFdxActivity(redis, nextKey, wf.job_data, fp)} :
             Attempt("parse_fdx", wf.job_data, out, fp, AfterParseFdx(wf, out.val))
    /\ UNCHANGED <<jobs, reports, calls>>

ExtractPdfTextStep ==
    /\ wf.pc = "extract_pdf_text"
    /\ \E fp \in FaultChoices({"retrieve", "store", "delete", "lost"}) :
         \E out \in {ExtractPdfTextActivity(redis, nextKey, wf.job_data, fp)} :
             Attempt("extract_pdf_text", wf.job_data, out, fp, AfterExtract(wf, out.val))
    /\ UNCHANGED <<jobs, reports, calls>>

SplitScenes ==
    /\ wf.pc = "split_scenes"
    /\ \E fp \in FaultChoices({"retrieve", "store", "delete", "lost"}) :
         \E out \in {SplitScenesActivity(redis, nextKey, wf.text_result, fp)} :
             Attempt("split_scenes", wf.text_result, out, fp, AfterSplit(wf, out.val))
    /\ UNCHANGED <<jobs, reports, calls>>

StructureSceneLlm ==
    /\ wf.pc = "structure_scene_llm"
    /\ \E fp \in FaultChoices({"retrieve", "store", "lost"}), llm \in {"ok", "fail"} :
         LET input == [blocks_ref_key |-> wf.split_result.blocks_ref_key,
                       block_index |-> wf.i]
         IN  \E out \in {StructureSceneLlmActivity(redis, nextKey, input, fp, llm)} :
               Attempt("structure_scene_llm", input, out, fp, AfterStructure(wf, out.val))
    /\ UNCHANGED <<jobs, reports, calls>>

AggregateScript ==
    /\ wf.pc = "aggregate_script"
    /\ \E fp \in FaultChoices({"store", "delete", "lost"})
                   \cup (IF faults < MaxFaults
                         THEN {Fault("retrieve", j) : j \in DOMAIN wf.scene_ref_keys}
                         ELSE {}) :
         LET input == [scene_ref_keys |-> wf.scene_ref_keys,
                       title |-> wf.title,
                       ocr_pages_skipped |-> DictGet(wf.text_result,
                                                     "ocr_pages_skipped", <<>>),
                       blocks_ref_key |-> wf.split_result.blocks_ref_key]
         IN  \E out \in {AggregateScriptActivity(redis, nextKey, input, fp)} :
               Attempt("aggregate_script", input, out, fp, AfterAggregateScript(wf, out.val))
    /\ UNCHANGED <<jobs, reports, calls>>

AnalyzeSceneRisk ==
    /\ wf.pc = "analyze_scene_risk"
    /\ \E fp \in FaultChoices({"retrieve", "lost"}), llm \in {"finding", "nothing", "fail"} :
         LET input == [parsed_ref_key |-> wf.parsed_ref_key, scene_index |-> wf.i]
         IN  \E out \in {AnalyzeSceneRiskActivity(redis, nextKey, input, fp, llm)} :
               Attempt("analyze_scene_risk", input, out, fp, AfterAnalyze(wf, out.val))
    /\ UNCHANGED <<jobs, reports, calls>>

AggregateReport ==
    /\ wf.pc = "aggregate_report"
    /\ \E fp \in FaultChoices({"store", "delete", "lost", "pdf"}) :
         LET job_data     == [all_findings |-> wf.all_findings,
                              parsed_ref_key |-> wf.parsed_ref_key]
             job_metadata == JobMetadataOf(wf.job_data)
         IN  \E out \in {AggregateReportActivity(redis, nextKey, job_data, job_metadata, fp)} :
               Attempt("aggregate_report", <<job_data, job_metadata>>, out, fp,
                     AfterAggregateReport(wf, out.val))
    /\ UNCHANGED <<jobs, reports, calls>>

DeliverReport ==
    /\ wf.pc = "deliver_report"
    /\ \E fp \in FaultChoices({"db", "retrieve", "delete", "lost"}), http \in {"ok", "fail"} :
         LET delivery_config == DeliveryConfigOf(wf.job_data)
             db  == DeliverDb(jobs, reports, wf.report_result,
                              OrEmptyDict(delivery_config),
                              IF fp.at = "db" THEN "down" ELSE "up")
             out == DeliverReportActivity(redis, nextKey, wf.report_result,
                                          delivery_config, fp, http)
         IN  /\ jobs' = db.jobs
             /\ reports' = db.reports
             /\ Attempt("deliver_report", <<wf.report_result, delivery_config>>, out, fp,
                        AfterDeliver(wf, out.val))
    /\ UNCHANGED calls

\* the TTL of the buffered data elapses while the workflow is running
TtlElapses ==
    /\ wf.pc \notin {"idle", "done"}
    /\ Advance(DEFAULT_TTL)

Next ==
    \/ \E script \in Scripts, user \in Users, delivery \in DeliveryModes :
         Submit(script, user, delivery)
    \/ WfRun
    \/ ParseFdx
    \/ ExtractPdfTextStep
    \/ SplitScenes
    \/ StructureSceneLlm
    \/ AggregateScript
    \/ AnalyzeSceneRisk
    \/ AggregateReport
    \/ DeliverReport
    \/ TtlElapses

Spec == Init /\ [][Next]_vars

\* the pipeline with a server and a worker that keep taking the steps they can
SpecLive == Init /\ [][Next]_vars /\ WF_vars(Next)

-----------------------------------------------------------------------------
(* GET /v1/security/reports/{report_id}: concurrent one-shot retrieval *)

ReportUsers == {"user-1", "user-2"}
ReportIds == {REPORT_ID, "report-2"}

\* the row deliver_report_activity writes when it is handed the job's
\* delivery configuration, and the package aggregate_report stored for it
DeliveredReports ==
    DeliverDb(<<>>, <<>>,
              [report_ref_key |-> 1, report_id |-> REPORT_ID, total_findings |-> 0],
              [delivery_mode |-> "pull", job_id |-> JOB_ID, project_id |-> PROJECT_ID,
               user_id |-> "user-1", script_format |-> "fdx"],
              "up").reports

StoredReportPackage ==
    [kind |-> "report_package",
     report |-> BuildReportDict(REPORT_ID, PROJECT_ID, "fdx", <<>>),
     pdf_base64 |-> PyNone]

InitReport ==
    /\ redis = SecureBufferStore(<<>>, 0, "secret-a", 1, StoredReportPackage, DEFAULT_TTL)
    /\ nextKey = 2
    /\ now = 0
    /\ advances = 0
    /\ secret = "secret-a"
    /\ bufOp = NoOp
    /\ written = <<>>
    /\ faults = 0
    /\ wf = WfIdle
    /\ history = <<>>
    /\ jobs = <<>>
    /\ reports = DeliveredReports
    /\ calls = NoCalls
    /\ worker = "running"
    /\ subs = NoSubs

\* a WHERE clause that does not look at the caller
UpdateMatchesAnyUser(row, report_id, user) ==
    /\ row.report_id = report_id
    /\ row.is_retrieved = FALSE

\* the WHERE clause of the UPDATE
UpdateMatches(row, report_id, user) ==
    /\ row.report_id = report_id
    /\ row.user_id = user
    /\ row.is_retrieved = FALSE

RowLockedNever(report_id, c) == FALSE

\* Postgres row lock: another transaction has updated the row and not yet
\* committed, so this UPDATE waits and then re-checks its WHERE clause
RowLocked(report_id, c) ==
    \E o \in Callers \ {c} : calls[o].pc = "updated" /\ calls[o].report_id = report_id

\* the UPDATE evaluated by caller c: it waits on a locked row, takes the row
\* when the WHERE clause matches, and finds no row otherwise
UpdateOutcome(c, user, report_id) ==
    LET hit == report_id \in DOMAIN reports
                 /\ UpdateMatches(reports[report_id], report_id, user)
    IN  [pc |-> IF ~hit THEN "norow"
                ELSE IF RowLocked(report_id, c) THEN "waiting" ELSE "updated",
         user |-> user, report_id |-> report_id,
         ref_key |-> IF hit THEN reports[report_id].report_ref_key ELSE NoKey,
         waited |-> calls[c].pc = "waiting",
         existed |-> report_id \in DOMAIN reports,
         status |-> 0, fetch |-> "none", body |-> PyNone]

\* UPDATE ... WHERE ... RETURNING report_ref_key, then row = result.first()
GetReportUpdate(c, user, report_id) ==
    /\ calls[c].pc = "idle"
    /\ calls' = [calls EXCEPT ![c] = UpdateOutcome(c, user, report_id)]
    /\ UNCHANGED <<redis, nextKey, now, advances, worker, subs, secret, bufOp, written, faults,
                   wf, history, jobs, reports>>

\* the lock is released: the UPDATE re-checks its WHERE clause on the new row
GetReportUpdateResume(c) ==
    /\ calls[c].pc = "waiting"
    /\ ~RowLocked(calls[c].report_id, c)
    /\ calls' = [calls EXCEPT ![c] = UpdateOutcome(c, calls[c].user, calls[c].report_id)]
    /\ UNCHANGED <<redis, nextKey, now, advances, worker, subs, secret, bufOp, written, faults,
                   wf, history, jobs, reports>>

\* if not row: SELECT is_retrieved; None -> 404, else 410
GetReportSelect(c) ==
    /\ calls[c].pc = "norow"
    /\ LET found == calls[c].report_id \in DOMAIN reports
                      /\ reports[calls[c].report_id].user_id = calls[c].user
       IN  calls' = [calls EXCEPT ![c].pc = "done",
                                  ![c].status = IF found THEN 410 ELSE 404]
    /\ UNCHANGED <<redis, nextKey, now, advances, worker, subs, secret, bufOp, written, faults,
                   wf, history, jobs, reports>>

\* await db.commit()
GetReportCommit(c) ==
    /\ calls[c].pc = "updated"
    /\ reports' = [reports EXCEPT ![calls[c].report_id].is_retrieved = TRUE,
                                  ![calls[c].report_id].retrieved_at =
                                        [at |-> "utcnow"]]
    /\ calls' = [calls EXCEPT ![c].pc = "committed"]
    /\ UNCHANGED <<redis, nextKey, now, advances, worker, subs, secret, bufOp, written, faults,
                   wf, history, jobs>>

\* a placeholder that carries no sign of the expiry
ExpiredPlaceholderUnmarked(report_id) ==
    [report_id |-> report_id, project_id |-> "", script_format |-> "fdx",
     risk_summary |-> [l \in RiskLevels |-> 0], total_findings |-> 0,
     findings |-> <<>>, metadata |-> EmptyDict]

\* report_data of the except branch of get_report
ExpiredPlaceholder(report_id) ==
    [report_id |-> report_id, project_id |-> "expired", script_format |-> "fdx",
     risk_summary |-> [l \in RiskLevels |-> 0], total_findings |-> 0,
     findings |-> <<>>, metadata |-> [error |-> "Report expired from buffer"]]

\* SecurityReport(...) built from report_data with the .get defaults
SecurityReportOf(report_data, report_id) ==
    [report_id |-> DictGet(report_data, "report_id", report_id),
     project_id |-> DictGet(report_data, "project_id", ""),
     script_format |-> DictGet(report_data, "script_format", "fdx"),
     risk_summary |-> DictGet(report_data, "risk_summary", EmptyDict),
     total_findings |-> DictGet(report_data, "total_findings", 0),
     findings |-> DictGet(report_data, "findings", <<>>),
     metadata |-> DictGet(report_data, "metadata", EmptyDict)]

\* how buffer.retrieve ended for the request
FetchOutcome(package) ==
    IF package.ok THEN "ok"
    ELSE IF package.msg = "Buffer key expired or not found" THEN "not_found"
    ELSE "decrypt_failed"

\* buffer.retrieve + buffer.delete, or the placeholder report; then the 200
GetReportFetch(c) ==
    /\ calls[c].pc = "committed"
    /\ LET package == SecureBufferRetrieve(redis, now, secret, calls[c].ref_key)
           report_data == IF package.ok
                          THEN DictGet(package.data, "report", package.data)
                          ELSE ExpiredPlaceholder(calls[c].report_id)
       IN  /\ redis' = IF package.ok
                       THEN SecureBufferDelete(redis, now, <<calls[c].ref_key>>).store
                       ELSE redis
           /\ calls' = [calls EXCEPT ![c].pc = "done",
                                     ![c].status = 200,
                                     ![c].fetch = FetchOutcome(package),
                                     ![c].body = SecurityReportOf(report_data,
                                                                  calls[c].report_id)]
    /\ UNCHANGED <<nextKey, now, advances, worker, subs, secret, bufOp, written, faults,
                   wf, history, jobs, reports>>

\* the delivery configurations deliver_report_activity may be executed with
DeliveryConfigs ==
    {PyNone} \cup
    [delivery_mode : DeliveryModes, job_id : {JOB_ID}, project_id : {PROJECT_ID},
     user_id : Users, script_format : {"fdx"}]

\* deliver_report_activity executed (again) for a report while requests for
\* it are being served
DeliverReportExec(report_id, delivery_config, http) ==
    LET report_data == [report_ref_key |-> 1, report_id |-> report_id,
                        total_findings |-> 0]
        db  == DeliverDb(jobs, reports, report_data, OrEmptyDict(delivery_config), "up")
        out == DeliverReportActivity(redis, nextKey, report_data, delivery_config,
                                     NoFault, http)
    IN  /\ reports' = db.reports
        /\ jobs' = db.jobs
        /\ redis' = out.store
        /\ bufOp' = [op |-> "deliver", report_id |-> report_id,
                     committed |-> db.reports # reports]
        /\ UNCHANGED <<nextKey, now, advances, worker, subs, secret, written, faults, wf, history, calls>>

NextReport ==
    \/ \E c \in Callers, user \in ReportUsers, report_id \in ReportIds :
         GetReportUpdate(c, user, report_id)
    \/ \E c \in Callers : GetReportUpdateResume(c)
    \/ \E c \in Callers : GetReportSelect(c)
    \/ \E c \in Callers : GetReportCommit(c)
    \/ \E c \in Callers : GetReportFetch(c)
    \/ \E report_id \in ReportIds, delivery_config \in DeliveryConfigs, http \in {"ok", "fail"} :
         DeliverReportExec(report_id, delivery_config, http)
    \/ Advance(DEFAULT_TTL)
    \/ \E k \in BufKeys : CorruptBlob(k)

SpecReport == InitReport /\ [][NextReport]_vars

-----------------------------------------------------------------------------
(* Concurrent submissions: security_check_async statement by statement *)

\* idempotency keys of the requests; "" stands for no key
IdempotencyKeys == {"", "key-1", "key-2"}

\* job_id = uuid.uuid4(): a fresh id for each request
JobIdOf(s) == <<"job", s>>

SubmittedScript == CHOOSE script \in Scripts : script.fmt = "fdx" /\ script.wellformed

\* the rows of job_metadata that carry the idempotency key
JobsWithKey(jobsT, key) == {j \in DOMAIN jobsT : jobsT[j].idempotency_key = key}

\* the rows the idempotency SELECT of the request returns
ExistingJobs(jobsT, key) == IF key # "" THEN JobsWithKey(jobsT, key) ELSE {}

\* the unique index on job_metadata.idempotency_key (NULLs do not collide)
UniqueKeyFree(jobsT, key) == key = "" \/ JobsWithKey(jobsT, key) = {}

\* what a request carries as Authorization header: none, a malformed one, the
\* token of no active unexpired key, a valid key
Authorizations == {"missing", "malformed", "unknown-key", "valid-key"}

\* the dependencies of the two POST routes: rate_limit_combined and
\* get_actor_headers (the async route also get_temporal_client, get_redis and
\* get_db); verify_api_key is not among them, so none of them reads the key
RouteAdmits(authorization) == TRUE

\* POST /v1/security/check: the stub report, 200
SecurityCheckSync(s, authorization) ==
    /\ subs[s].pc = "idle"
    /\ RouteAdmits(authorization)
    /\ subs' = [subs EXCEPT ![s].pc = "done", ![s].endpoint = "check",
                            ![s].authorization = authorization, ![s].status = 200]
    /\ UNCHANGED <<redis, nextKey, now, advances, worker, secret, bufOp, written, faults,
                   wf, history, jobs, reports, calls>>

\* POST /v1/security/check:async up to the idempotency check:
\* if resolved.idempotency_key: SELECT ...; return existing job, else go on
SubmitSelect(s, key, authorization) ==
    /\ subs[s].pc = "idle"
    /\ RouteAdmits(authorization)
    /\ LET existing == ExistingJobs(jobs, key)
       IN  subs' = [subs EXCEPT ![s] =
                      IF existing # {}
                      THEN [@ EXCEPT !.pc = "done", !.idempotency_key = key,
                                     !.endpoint = "check:async",
                                     !.authorization = authorization,
                                     !.status = 202,
                                     !.returned = CHOOSE j \in existing : TRUE]
                      ELSE [@ EXCEPT !.pc = "insert", !.idempotency_key = key,
                                     !.endpoint = "check:async",
                                     !.authorization = authorization,
                                     !.job_id = JobIdOf(s)]]
    /\ UNCHANGED <<redis, nextKey, now, advances, worker, secret, bufOp, written, faults,
                   wf, history, jobs, reports, calls>>

\* db.add(job_meta); await db.commit(): IntegrityError on a taken key, which
\* the general exception handler answers with 500
SubmitInsert(s) ==
    /\ subs[s].pc = "insert"
    /\ IF UniqueKeyFree(jobs, subs[s].idempotency_key)
       THEN /\ jobs' = [j \in DOMAIN jobs \cup {subs[s].job_id} |->
                          IF j = subs[s].job_id
                          THEN [job_id |-> subs[s].job_id, project_id |-> PROJECT_ID,
                                script_format |-> "fdx", status |-> "pending",
                                user_id |-> "user-1", priority |-> DEFAULT_PRIORITY,
                                idempotency_key |-> subs[s].idempotency_key,
                                delivery_mode |-> "pull"]
                          ELSE jobs[j]]
            /\ subs' = [subs EXCEPT ![s].pc = "store"]
       ELSE /\ jobs' = jobs
            /\ subs' = [subs EXCEPT ![s].pc = "done", ![s].status = 500]
    /\ UNCHANGED <<redis, nextKey, now, advances, worker, secret, bufOp, written, faults,
                   wf, history, reports, calls>>

\* ref_key = await buffer.store({"script_content": ...})
SubmitStore(s) ==
    /\ subs[s].pc = "store"
    /\ redis' = Store(redis, nextKey,
                      [kind |-> "script", script_content |-> B64Encode(SubmittedScript)])
    /\ nextKey' = nextKey + 1
    /\ subs' = [subs EXCEPT ![s].pc = "start", ![s].ref_key = nextKey]
    /\ UNCHANGED <<now, advances, worker, secret, bufOp, written, faults,
                   wf, history, jobs, reports, calls>>

\* await temporal_client.start_workflow(..., id=str(job_id)); return 202
SubmitStart(s) ==
    /\ subs[s].pc = "start"
    /\ subs' = [subs EXCEPT ![s].pc = "done", ![s].started = TRUE,
                            ![s].status = 202, ![s].returned = subs[s].job_id]
    /\ UNCHANGED <<redis, nextKey, now, advances, worker, secret, bufOp, written, faults,
                   wf, history, jobs, reports, calls>>

NextSubmit ==
    \/ \E s \in Submitters, authorization \in Authorizations :
          SecurityCheckSync(s, authorization)
    \/ \E s \in Submitters, key \in IdempotencyKeys, authorization \in Authorizations :
          SubmitSelect(s, key, authorization)
    \/ \E s \in Submitters : SubmitInsert(s)
    \/ \E s \in Submitters : SubmitStore(s)
    \/ \E s \in Submitters : SubmitStart(s)

SpecSubmit == Init /\ [][NextSubmit]_vars

\* buffer.store raises (Redis unreachable, SETEX refused): nothing catches it,
\* the general exception handler answers 500; the job row is already committed
SubmitStoreFails(s) ==
    /\ subs[s].pc = "store"
    /\ subs' = [subs EXCEPT ![s].pc = "done", ![s].status = 500]
    /\ UNCHANGED <<redis, nextKey, now, advances, worker, secret, bufOp, written, faults,
                   wf, history, jobs, reports, calls>>

\* start_workflow raises (Temporal unreachable): 500; the job row is committed
\* and the raw script stays in the store until its TTL
SubmitStartFails(s) ==
    /\ subs[s].pc = "start"
    /\ subs' = [subs EXCEPT ![s].pc = "done", ![s].status = 500]
    /\ UNCHANGED <<redis, nextKey, now, advances, worker, secret, bufOp, written, faults,
                   wf, history, jobs, reports, calls>>

NextSubmitFaulty ==
    \/ NextSubmit
    \/ \E s \in Submitters : SubmitStoreFails(s)
    \/ \E s \in Submitters : SubmitStartFails(s)

SpecSubmitFaulty == Init /\ [][NextSubmitFaulty]_vars

-----------------------------------------------------------------------------
(* deliver_report_activity executed on its own, in either delivery mode *)

InitDeliver ==
    /\ redis = SecureBufferStore(<<>>, 0, "secret-a", 1, StoredReportPackage, DEFAULT_TTL)
    /\ nextKey = 2
    /\ now = 0
    /\ advances = 0
    /\ secret = "secret-a"
    /\ bufOp = NoOp
    /\ written = <<>>
    /\ faults = 0
    /\ wf = WfIdle
    /\ history = <<>>
    /\ jobs = [j \in {JOB_ID} |->
                 [job_id |-> JOB_ID, project_id |-> PROJECT_ID, script_format |-> "fdx",
                  status |-> "pending", user_id |-> "user-1",
                  priority |-> DEFAULT_PRIORITY, progress_percentage |-> 0,
                  report_id |-> "", delivery_mode |-> "pull"]]
    /\ reports = <<>>
    /\ calls = NoCalls
    /\ worker = "running"
    /\ subs = NoSubs

\* the places where one execution of deliver_report_activity may meet an
\* infrastructure fault
DeliverFaults == {NoFault} \cup {Fault(p, 0) : p \in {"db", "retrieve", "delete"}}

\* one execution of deliver_report_activity and what the workflow makes of
\* its result
DeliverReportAttempt(report_id, delivery_config, fp, http) ==
    LET report_data == [report_ref_key |-> 1, report_id |-> report_id,
                        total_findings |-> 0]
        config  == OrEmptyDict(delivery_config)
        package == Retrieve(redis, 1)
        db  == DeliverDb(jobs, reports, report_data, config,
                         IF fp.at = "db" THEN "down" ELSE "up")
        out == DeliverReportActivity(redis, nextKey, report_data, delivery_config,
                                     fp, http)
    IN  /\ reports' = db.reports
        /\ jobs' = db.jobs
        /\ redis' = out.store
        /\ bufOp' = [op |-> "deliver_attempt",
                     report_ref_key |-> report_data.report_ref_key,
                     delivery_mode |-> DictGet(config, "delivery_mode", "pull"),
                     fault |-> fp,
                     \* the outbound POST was made and answered 2xx
                     posted |-> /\ DictGet(config, "delivery_mode", "pull") = "push"
                                /\ fp.at # "retrieve"
                                /\ package.ok
                                /\ http = "ok",
                     before |-> redis,
                     raised |-> ~out.ok,
                     result |-> out.val,
                     workflow_status |-> IF out.ok
                                         THEN AfterDeliver(WfIdle, out.val).result.status
                                         ELSE "failed"]
        /\ UNCHANGED <<nextKey, now, advances, worker, subs, secret, written, faults,
                       wf, history, calls>>

NextDeliver ==
    \/ \E report_id \in ReportIds, delivery_config \in DeliveryConfigs,
          fp \in DeliverFaults, http \in {"ok", "fail"} :
         DeliverReportAttempt(report_id, delivery_config, fp, http)
    \/ Advance(DEFAULT_TTL)
    \/ \E k \in BufKeys : CorruptBlob(k)

SpecDeliver == InitDeliver /\ [][NextDeliver]_vars

-----------------------------------------------------------------------------
(* The worker process of worker/main.py and the workflows waiting for it *)

\* the names worker/main.py imports from workflows.activities
WorkerImports ==
    {"analyze_risks_activity", "deliver_report_activity",
     "generate_report_activity", "parse_script_activity"}

\* the functions workflows/activities.py defines with @activity.defn
ActivityFunctions ==
    {"parse_fdx_activity", "extract_pdf_text_activity", "split_scenes_activity",
     "structure_scene_llm_activity", "aggregate_script_activity",
     "analyze_scene_risk_activity", "aggregate_report_activity",
     "deliver_report_activity"}

InitWorker ==
    /\ redis = <<>>
    /\ nextKey = 1
    /\ now = 0
    /\ advances = 0
    /\ secret = "secret-a"
    /\ bufOp = NoOp
    /\ written = <<>>
    /\ faults = 0
    /\ wf = WfIdle
    /\ history = <<>>
    /\ jobs = <<>>
    /\ reports = <<>>
    /\ calls = NoCalls
    /\ worker = "stopped"
    /\ subs = NoSubs

\* python worker/main.py: the module-level imports; a name the module does
\* not define raises ImportError and the process exits before main() runs
WorkerMain ==
    /\ worker' = IF WorkerImports \subseteq ActivityFunctions THEN "running" ELSE "crashed"
    /\ UNCHANGED <<redis, nextKey, now, advances, secret, bufOp, written, faults,
                   wf, history, jobs, reports, calls, subs>>

\* worker.run(): the worker polls the task queue and executes the next
\* workflow or activity task
WorkerRun ==
    \/ WfRun
    \/ ParseFdx
    \/ ExtractPdfTextStep
    \/ SplitScenes
    \/ StructureSceneLlm
    \/ AggregateScript
    \/ AnalyzeSceneRisk
    \/ AggregateReport
    \/ DeliverReport

\* the worker process from its start on
WorkerProcess ==
    IF worker = "stopped" THEN WorkerMain
    ELSE worker = "running" /\ WorkerRun

WorkflowTimedOut == [type |-> "WorkflowExecutionTimedOut"]

\* start_workflow(..., execution_timeout=...): the server closes a workflow
\* that is still open when the timeout elapses
ExecutionTimeout ==
    /\ wf.pc \notin {"idle", "done", "timed_out"}
    /\ wf' = [wf EXCEPT !.pc = "timed_out"]
    /\ history' = Append(history, WorkflowTimedOut)
    /\ UNCHANGED <<redis, nextKey, now, advances, secret, bufOp, written, faults,
                   jobs, reports, calls, worker, subs>>

NextWorker ==
    \/ \E script \in Scripts, user \in Users, delivery \in DeliveryModes :
         Submit(script, user, delivery)
    \/ WorkerProcess
    \/ ExecutionTimeout

\* the server, the API and the worker host keep running
SpecWorker == InitWorker /\ [][NextWorker]_vars /\ WF_vars(NextWorker)

-----------------------------------------------------------------------------
(* Properties of the transient store, checked under SpecBuffer *)

Retrieved == bufOp.op = "retrieve"
Intact(k) == Live(redis, now, k) /\ FernetValid(secret, redis[k].blob)
Range(sq) == {sq[i] : i \in DOMAIN sq}

RetrieveFailsExplicitly ==
    /\ [](Retrieved =>
            /\ ~Live(redis, now, bufOp.key) =>
                  bufOp.res = NotFound("Buffer key expired or not found", bufOp.key)
            /\ (Live(redis, now, bufOp.key) /\ ~Intact(bufOp.key)) =>
                  bufOp.res = NotFound("Buffer decryption failed (key rotated or corrupted)",
                                       bufOp.key)
            /\ bufOp.res.ok =>
                  /\ Intact(bufOp.key)
                  /\ bufOp.res.data = JsonLoads(JsonDumps(written[bufOp.key])))
    /\ [][(\E k \in BufKeys : BufRetrieve(k)) => redis' = redis]_vars

RetrieveFailsExplicitlyWitness ==
    /\ Retrieved
    /\ Live(redis, now, bufOp.key)
    /\ redis[bufOp.key].blob.fkey # DeriveFernetKey(secret)
    /\ ~bufOp.res.ok

\* C10: delete is idempotent: keys that are absent are skipped without error,
\* delete() with no key returns 0 and issues no Redis command, and the count
\* returned is the number of entries actually removed.
DeleteIdempotent ==
    bufOp.op = "delete" =>
        /\ bufOp.count = Cardinality(Range(bufOp.keys) \cap bufOp.pre)
        /\ {k \in DOMAIN redis : Live(redis, now, k)} = bufOp.pre \ Range(bufOp.keys)
        /\ bufOp.keys = <<>> => (bufOp.count = 0 /\ ~bufOp.redis_called)

DeleteIdempotentWitness ==
    /\ bufOp.op = "delete"
    /\ Len(bufOp.keys) = 2
    /\ bufOp.keys[1] = bufOp.keys[2]
    /\ bufOp.keys[1] \in DOMAIN written
    /\ bufOp.keys[1] \notin bufOp.pre
    /\ bufOp.count = 0

\* C11: a store call with ttl = 0 returns a ref key, and that key is
\* unretrievable; every key is unretrievable once its TTL has elapsed.
ZeroTtlKeyUnretrievable ==
    /\ (bufOp.op = "store" /\ bufOp.ttl = 0) =>
          /\ ~bufOp.raised
          /\ ~SecureBufferRetrieve(redis, now, secret, bufOp.key).ok
    /\ \A k \in DOMAIN redis :
          redis[k].exp <= now => ~SecureBufferRetrieve(redis, now, secret, k).ok

-----------------------------------------------------------------------------
(* Properties of the pipeline, checked under Spec *)

WfDone == wf.pc = "done"
WfCompleted == WfDone /\ wf.result.status = "completed"
WfFailed == WfDone /\ wf.result.status = "failed"

IsEvent(j, type, act) == history[j].type = type /\ history[j].activity = act
Stages ==
    {"parse_fdx", "extract_pdf_text", "split_scenes", "structure_scene_llm",
     "aggregate_script", "analyze_scene_risk", "aggregate_report", "deliver_report"}

\* C2: once the workflow of a pull-mode job has returned status completed,
\* report_metadata holds a row for the job's report_id that belongs to the
\* job's user, is not yet retrieved, and names a ref key under which the
\* report package can still be retrieved.
CompletedJobHasRetrievableReport ==
    (WfCompleted /\ wf.job_data.delivery_mode = "pull") =>
        /\ wf.job_data.report_id \in DOMAIN reports
        /\ LET row == reports[wf.job_data.report_id]
           IN  /\ row.user_id = wf.job_data.user_id
               /\ ~row.is_retrieved
               /\ Retrievable(redis, row.report_ref_key)
               /\ Retrieve(redis, row.report_ref_key).data.kind = "report_package"

\* C3: once an activity has failed for good (its retries used up) the workflow
\* is over with status failed and no activity is started any more, so neither
\* aggregate_report nor deliver_report is; deliver_report is started only when
\* no stage failed, every stage started before it completed, and the findings
\* list handed to aggregate_report has one entry per scene, in scene order.
FailedStageStopsPipeline ==
    /\ \A a \in DOMAIN history :
         history[a].type = "ActivityTaskFailed" =>
            /\ WfFailed
            /\ \A b \in DOMAIN history :
                 b > a => history[b].type # "ActivityTaskScheduled"
    /\ \A d \in DOMAIN history :
         IsEvent(d, "ActivityTaskScheduled", "deliver_report") =>
            /\ \A a \in 1..d : history[a].type # "ActivityTaskFailed"
            /\ \A a \in 1..(d - 1) :
                 history[a].type = "ActivityTaskScheduled" =>
                    /\ a + 1 < d
                    /\ history[a + 1].type = "ActivityTaskCompleted"
                    /\ history[a + 1].activity = history[a].activity
            /\ \E p \in 1..d, g \in 1..d :
                 /\ p < g
                 /\ history[p].type = "ActivityTaskCompleted"
                 /\ history[p].activity \in {"parse_fdx", "aggregate_script"}
                 /\ IsEvent(g, "ActivityTaskScheduled", "aggregate_report")
                 /\ LET all_findings == history[g].input[1].all_findings
                    IN  /\ Len(all_findings) = history[p].result.total_scenes
                        /\ \A n \in DOMAIN all_findings :
                             all_findings[n].scene_index = n - 1

FailedStageStopsPipelineWitness ==
    /\ WfFailed
    /\ \E a \in DOMAIN history :
         /\ IsEvent(a, "ActivityTaskFailed", "aggregate_script")
         /\ \E b \in 1..a : IsEvent(b, "ActivityTaskCompleted", "structure_scene_llm")

\* C4: run() never raises: whatever the job and whichever activities fail, the
\* workflow ends with a result whose status is completed or failed, that
\* carries the workflow id, and that carries an error exactly when the status
\* is failed; the workflow is never anywhere but at a stage or at its end.
RunReturnsStructuredResult ==
    /\ wf.pc \in {"idle", "run", "done"} \cup Stages
    /\ WfDone =>
          /\ wf.result.status \in {"completed", "failed"}
          /\ "workflow_id" \in DOMAIN wf.result
          /\ wf.result.workflow_id = wf.job_data.job_id
          /\ ("error" \in DOMAIN wf.result) <=> (wf.result.status = "failed")

RunReturnsStructuredResultWitness ==
    /\ WfFailed
    /\ wf.result.error = "ParsingException"
    /\ wf.result.workflow_id = JOB_ID

\* the activities that delete the input keys they have read
ConsumingStages == {"parse_fdx", "extract_pdf_text", "split_scenes",
                    "aggregate_script", "aggregate_report"}

\* C5: an activity attempt that raises leaves every input ref key that was
\* retrievable before it still retrievable, and an attempt that returns has
\* deleted the input keys the activity consumes.
FailedAttemptKeepsInputs ==
    (bufOp.op = "activity" /\ bufOp.fault.at # "lost") =>
        /\ bufOp.raised =>
              \A k \in bufOp.inputs : Retrievable(redis, k)
        /\ (~bufOp.raised /\ bufOp.activity \in ConsumingStages) =>
              \A k \in bufOp.inputs : ~Retrievable(redis, k)

\* C6: an activity executed again with the same input, after an execution
\* that ran to its end (its result lost) or stopped part-way, succeeds.
ReExecutionSucceeds ==
    [][ ( /\ bufOp.op = "activity"
          /\ bufOp.fault.at # "none"
          /\ bufOp'.op = "activity"
          /\ bufOp'.activity = bufOp.activity
          /\ bufOp'.index = bufOp.index
          /\ bufOp'.attempt = bufOp.attempt + 1
          /\ bufOp'.fault.at = "none" )
        => ~bufOp'.raised ]_vars

\* where an event of the history carries text: the title taken from the
\* preamble and the findings the model wrote about a scene
HoldsText(x) == x # PyNone

FindingsHoldText(scene_result) ==
    \E n \in DOMAIN scene_result.findings :
        HoldsText(scene_result.findings[n].description)

EventHoldsText(ev) ==
    CASE ev.type = "ActivityTaskCompleted" /\ ev.activity = "structure_scene_llm" ->
            "title" \in DOMAIN ev.result /\ HoldsText(ev.result.title)
      [] ev.type = "ActivityTaskScheduled" /\ ev.activity = "aggregate_script" ->
            HoldsText(ev.input.title)
      [] ev.type = "ActivityTaskCompleted" /\ ev.activity = "analyze_scene_risk" ->
            FindingsHoldText(ev.result)
      [] ev.type = "ActivityTaskScheduled" /\ ev.activity = "aggregate_report" ->
            \E n \in DOMAIN ev.input[1].all_findings :
                FindingsHoldText(ev.input[1].all_findings[n])
      [] OTHER -> FALSE

\* C7: nothing in the execution history (workflow input, activity inputs,
\* activity results) holds text of the script or text derived from it.
HistoryHoldsNoScriptText ==
    \A j \in DOMAIN history : ~EventHoldsText(history[j])

-----------------------------------------------------------------------------
(* Properties of one-shot retrieval, checked under SpecReport *)

OwnerCalls(report_id) ==
    {c \in Callers : /\ calls[c].pc # "idle"
                     /\ calls[c].existed
                     /\ calls[c].report_id = report_id
                     /\ calls[c].user = reports[report_id].user_id}

PassedCondition(c) == calls[c].pc \in {"updated", "committed"} \/ calls[c].status = 200

IsRetrievedMonotonic ==
    [][\A report_id \in DOMAIN reports :
          reports[report_id].is_retrieved =>
             /\ report_id \in DOMAIN reports'
             /\ reports'[report_id].is_retrieved]_vars

IsRetrievedMonotonicWitness ==
    /\ bufOp.op = "deliver"
    /\ bufOp.report_id = REPORT_ID
    /\ ~bufOp.committed
    /\ reports[REPORT_ID].is_retrieved
    /\ \E c \in Callers : calls[c].status = 200

\* C13: once a get_report call that set is_retrieved has returned, the report
\* package named by the report's ref key is no longer in the transient store,
\* whether the fetch succeeded or failed.
RetrievedReportLeavesStore ==
    \A c \in Callers :
        (calls[c].pc = "done" /\ calls[c].status = 200) =>
            calls[c].ref_key \notin DOMAIN redis

\* C14: when the owner's first get_report finds the report package expired
\* from the transient store, the call answers 200 with a placeholder report
\* that has zero findings and the 'expired' marker, the one-shot flag is
\* consumed, and every other call of the owner on that report answers 410.
ExpiredReportGetsPlaceholder ==
    \A c \in Callers :
        (calls[c].pc = "done" /\ calls[c].fetch = "not_found") =>
            /\ calls[c].status = 200
            /\ calls[c].body.total_findings = 0
            /\ calls[c].body.findings = <<>>
            /\ calls[c].body.project_id = "expired"
            /\ "error" \in DOMAIN calls[c].body.metadata
            /\ reports[calls[c].report_id].is_retrieved
            /\ \A d \in OwnerCalls(calls[c].report_id) \ {c} :
                   calls[d].pc = "done" => calls[d].status = 410

ExpiredReportGetsPlaceholderWitness ==
    \E c, d \in OwnerCalls(REPORT_ID) :
        /\ calls[c].pc = "done" /\ calls[c].fetch = "not_found"
        /\ now >= DEFAULT_TTL /\ calls[c].ref_key \notin DOMAIN redis
        /\ calls[c].body = SecurityReportOf(ExpiredPlaceholder(REPORT_ID), REPORT_ID)
        /\ calls[d].pc = "done" /\ calls[d].status = 410

\* the get_report calls made on an existing report by someone else than its owner
NonOwnerCalls(report_id) ==
    {c \in Callers : /\ calls[c].pc # "idle"
                     /\ calls[c].existed
                     /\ calls[c].report_id = report_id
                     /\ calls[c].user # reports[report_id].user_id}

\* C15: a get_report call by a user who does not own the report answers 404,
\* never 200 or 410, and no step of it changes anything: the report row
\* (is_retrieved false, retrieved_at unset) and the transient store stay as
\* they are, so the owner's UPDATE still matches afterwards.
NonOwnerGets404 ==
    [][\A report_id \in DOMAIN reports : \A c \in Callers :
          (calls'[c] # calls[c] /\ report_id \in DOMAIN reports'
             /\ c \in NonOwnerCalls(report_id)') =>
              /\ calls'[c].pc \in {"norow", "done"}
              /\ calls'[c].pc = "done" => calls'[c].status = 404
              /\ reports' = reports
              /\ redis' = redis
              /\ jobs' = jobs]_vars

NonOwnerGets404Witness ==
    \E c \in NonOwnerCalls(REPORT_ID), d \in OwnerCalls(REPORT_ID) :
        /\ calls[c].pc = "done" /\ calls[c].status = 404
        /\ calls[d].pc = "done" /\ calls[d].status = 200 /\ calls[d].fetch = "ok"
        /\ reports[REPORT_ID].retrieved_at # PyNone

\* C16: a job in which the risk-analysis activity of one scene fails on every
\* attempt still ends with status completed, with an empty findings list for
\* that scene.
AnalysisFailureStillCompletes ==
    (WfDone /\ \E j \in DOMAIN history :
                  IsEvent(j, "ActivityTaskFailed", "analyze_scene_risk")) =>
        WfCompleted

\* C17: analyze_scene_risk_activity never raises: whatever fails inside it
\* (the LLM call, the prompt or taxonomy lookup, the read of the transient
\* store), the attempt returns a result for its scene index.
AnalyzeSceneRiskNeverRaises ==
    (/\ bufOp.op = "activity"
     /\ bufOp.activity = "analyze_scene_risk"
     /\ bufOp.fault.at # "lost") =>
        ~bufOp.raised

\* C18: a stage attempt that is handed a ref key which is missing, expired or
\* undecryptable fails; it does not go on without the data behind the key.
MissingInputFailsStage ==
    (bufOp.op = "activity" /\ bufOp.missing # {}) => bufOp.raised

FdxStages == {"parse_fdx", "analyze_scene_risk", "aggregate_report", "deliver_report"}
PdfStages == Stages \ {"parse_fdx"}

\* the branch decided by script_format of the workflow input
BranchStages == IF DictGet(history[1].input, "script_format", "fdx") = "pdf"
                THEN PdfStages ELSE FdxStages
FirstStage == IF DictGet(history[1].input, "script_format", "fdx") = "pdf"
              THEN "extract_pdf_text" ELSE "parse_fdx"

\* the stage that may be scheduled next after the completion event done
MayFollow(done, act) ==
    CASE done.activity \in {"parse_fdx", "aggregate_script"} ->
            act = IF done.result.total_scenes > 0
                  THEN "analyze_scene_risk" ELSE "aggregate_report"
      [] done.activity = "extract_pdf_text" -> act = "split_scenes"
      [] done.activity = "split_scenes" ->
            act = IF done.result.block_count > 0
                  THEN "structure_scene_llm" ELSE "aggregate_script"
      [] done.activity = "structure_scene_llm" ->
            act \in {"structure_scene_llm", "aggregate_script"}
      [] done.activity = "analyze_scene_risk" ->
            act \in {"analyze_scene_risk", "aggregate_report"}
      [] done.activity = "aggregate_report" -> act = "deliver_report"
      [] OTHER -> FALSE

\* C19: within a job the stage activities are scheduled in the order of the
\* branch chosen from script_format (parse, analyze per scene, aggregate
\* report, deliver; or extract, split, structure per block, aggregate script,
\* analyze per scene, aggregate report, deliver): each one directly after the
\* successful completion of its predecessor, never while another activity of
\* the job is in flight, and never a stage of the other branch.
StagesRunInOrder ==
    \A j \in DOMAIN history :
        history[j].type = "ActivityTaskScheduled" =>
            LET act == history[j].activity
            IN  /\ act \in BranchStages
                /\ j > 1
                /\ \/ /\ history[j - 1].type = "WorkflowExecutionStarted"
                      /\ act = FirstStage
                   \/ /\ history[j - 1].type = "ActivityTaskCompleted"
                      /\ MayFollow(history[j - 1], act)
                /\ j < Len(history) =>
                      /\ history[j + 1].type \in {"ActivityTaskCompleted",
                                                  "ActivityTaskFailed"}
                      /\ history[j + 1].activity = act

StagesRunInOrderWitness ==
    /\ WfCompleted
    /\ wf.job_data.script_format = "pdf"
    /\ \E j \in DOMAIN history : IsEvent(j, "ActivityTaskCompleted", "structure_scene_llm")
    /\ \E j \in DOMAIN history : IsEvent(j, "ActivityTaskCompleted", "analyze_scene_risk")
    /\ \E j \in DOMAIN history : IsEvent(j, "ActivityTaskCompleted", "deliver_report")

\* the events of one type that analyze_scene_risk has in the history, in order
AnalyzeEvents(type) ==
    SelectSeq(history, LAMBDA e : e.type = type /\ e.activity = "analyze_scene_risk")

\* the completions of the stage that discovers the scene count
SceneCountEvents ==
    {j \in DOMAIN history :
        \/ IsEvent(j, "ActivityTaskCompleted", "parse_fdx")
        \/ IsEvent(j, "ActivityTaskCompleted", "aggregate_script")}

\* C20: analyze_scene_risk completes exactly once for each scene index
\* 0..total_scenes-1, in increasing order, with total_scenes the value the
\* parse / aggregate-script stage returned and unchanged during the loop; and
\* entry i of the findings list handed to aggregate_report is the result for
\* scene index i.
AnalysisOncePerScene ==
    LET sched == AnalyzeEvents("ActivityTaskScheduled")
        done  == AnalyzeEvents("ActivityTaskCompleted")
    IN  /\ \A i \in DOMAIN sched : sched[i].input.scene_index = i - 1
        /\ \A i \in DOMAIN done : done[i].result.scene_index = i - 1
        /\ sched # <<>> => SceneCountEvents # {}
        /\ \A k \in SceneCountEvents :
              /\ Len(sched) <= history[k].result.total_scenes
              /\ wf.pc \in {"analyze_scene_risk", "aggregate_report", "deliver_report"}
                    => wf.total_scenes = history[k].result.total_scenes
        /\ \A j \in DOMAIN history :
              IsEvent(j, "ActivityTaskScheduled", "aggregate_report") =>
                  /\ history[j].input[1].all_findings =
                         [i \in DOMAIN done |-> done[i].result]
                  /\ \A k \in SceneCountEvents :
                         Len(done) = history[k].result.total_scenes

AnalysisOncePerSceneWitness ==
    LET done == AnalyzeEvents("ActivityTaskCompleted")
    IN  /\ WfCompleted
        /\ Len(done) = 2
        /\ done[1].result.findings # done[2].result.findings
        /\ wf.all_findings = <<done[1].result, done[2].result>>

\* C21: nothing is retried without end: every activity has a maximum attempt
\* count, so a started workflow makes a bounded number of attempts and
\* eventually returns its result, completed or failed.
StartedWorkflowTerminates ==
    (wf.pc = "run") ~> (WfDone /\ wf.result.status \in {"completed", "failed"})

\* C22: a validation error raised by a parse or extract stage (malformed
\* source document) is not retried: the attempt that raised it is the only
\* one, and the workflow ends failed with that reason in its error field.
ValidationErrorNotRetried ==
    (/\ bufOp.op = "activity"
     /\ bufOp.activity \in {"parse_fdx", "extract_pdf_text"}
     /\ bufOp.fault = NoFault
     /\ bufOp.error = "ParsingException") =>
        /\ bufOp.attempt = 1
        /\ WfFailed
        /\ wf.result.error = "ParsingException"

\* C23: whenever the workflow has returned status failed, the job's row in
\* job_metadata eventually has status failed (with an error message); the
\* job of a finished workflow does not stay pending.
FailedWorkflowMarksJobFailed ==
    WfFailed ~> (JOB_ID \in DOMAIN jobs /\ jobs[JOB_ID].status = "failed")

\* C24: deliver_report in push mode never raises; when the outbound POST
\* succeeded the report ref is deleted and delivered = true is returned; when
\* the push failed the store is left as it was and delivered = false is
\* returned; either way the workflow ends completed.
PushDeliveryOutcome ==
    (bufOp.op = "deliver_attempt" /\ bufOp.delivery_mode = "push") =>
        /\ ~bufOp.raised
        /\ bufOp.workflow_status = "completed"
        /\ IF bufOp.posted
           THEN /\ bufOp.result.delivered
                /\ bufOp.report_ref_key \notin DOMAIN redis
           ELSE /\ ~bufOp.result.delivered
                /\ redis = bufOp.before

\* C25: the delivery configuration reaches the deliver stage: deliver_report
\* is scheduled with the job's job_id, user_id, project_id and script_format,
\* and for a job accepted with delivery_mode push it runs in push mode.
DeliveryConfigReachesDeliver ==
    \A j \in DOMAIN history :
        IsEvent(j, "ActivityTaskScheduled", "deliver_report") =>
            LET config   == OrEmptyDict(history[j].input[2])
                job_data == history[1].input
            IN  /\ DictGet(config, "job_id", "") = job_data.job_id
                /\ DictGet(config, "user_id", "") = job_data.user_id
                /\ DictGet(config, "project_id", "") = job_data.project_id
                /\ DictGet(config, "script_format", "") = job_data.script_format
                /\ DictGet(config, "delivery_mode", "pull") = job_data.delivery_mode

\* C26: the job and report records are changed only by the boundary layer
\* (creation of the job at submission) and by the deliver stage: a step of
\* parse, extract, split, structure, aggregate-script, analyze or
\* aggregate-report leaves every job and report record as it was, and no step
\* removes a job record.
MetadataChangedOnlyByBoundaryAndDeliver ==
    [][/\ DOMAIN jobs \subseteq DOMAIN jobs'
       /\ (jobs' # jobs \/ reports' # reports) =>
             \/ wf.pc = "idle" /\ jobs = <<>> /\ reports' = reports
             \/ wf.pc = "deliver_report"
       /\ wf.pc \in Stages \ {"deliver_report"} =>
             jobs' = jobs /\ reports' = reports]_vars

MetadataChangedOnlyByBoundaryAndDeliverWitness ==
    /\ WfCompleted
    /\ \A act \in {"extract_pdf_text", "split_scenes", "structure_scene_llm",
                     "aggregate_script", "analyze_scene_risk", "aggregate_report",
                     "deliver_report"} :
          \E j \in DOMAIN history : IsEvent(j, "ActivityTaskCompleted", act)
    /\ JOB_ID \in DOMAIN jobs

\* C27: two submissions with the same non-null idempotency key, in any
\* interleaving, both answer with the same job_id, and one job record, one
\* stored raw script and one started workflow exist for the key.
SameKeySameJob ==
    \A s, t \in Submitters :
        (/\ s # t
         /\ subs[s].pc = "done" /\ subs[t].pc = "done"
         /\ subs[s].idempotency_key # ""
         /\ subs[s].idempotency_key = subs[t].idempotency_key) =>
            LET same == {u \in Submitters :
                           subs[u].idempotency_key = subs[s].idempotency_key}
            IN  /\ subs[s].status = 202 /\ subs[t].status = 202
                /\ subs[s].returned = subs[t].returned
                /\ Cardinality(JobsWithKey(jobs, subs[s].idempotency_key)) = 1
                /\ Cardinality({u \in same : subs[u].ref_key # NoKey}) <= 1
                /\ Cardinality({u \in same : subs[u].started}) <= 1

\* ---------------------------------------------------------------------------
\* Risk taxonomy (services/taxonomy.py) and the totals of the aggregated report
\* ---------------------------------------------------------------------------

MIN_SCORE == 1
MAX_SCORE == 5
MaxRawScore == 7
MaxSceneFindings == 2
MaxSceneResults == 2

\* severity_matrix.thresholds of taxonomy.yaml, as summary_for_prompt states them
Thresholds == [critical |-> 16, high |-> 10, medium |-> 5, low |-> 2]

\* the order in which calculate_severity tries the levels
SeverityOrder == <<"critical", "high", "medium", "low", "info">>

\* the clamp without its bounds
ClampScoreUnbounded(x) == x

\* max(1, min(5, x))
ClampScore(x) ==
    LET capped == IF x < MAX_SCORE THEN x ELSE MAX_SCORE
    IN  IF capped > MIN_SCORE THEN capped ELSE MIN_SCORE

\* for level in (...): if score >= self._thresholds.get(level, 0): return level
RECURSIVE FirstLevelMet(_, _)
FirstLevelMet(score, k) ==
    IF k > Len(SeverityOrder) THEN "info"
    ELSE IF score >= DictGet(Thresholds, SeverityOrder[k], 0) THEN SeverityOrder[k]
    ELSE FirstLevelMet(score, k + 1)

\* TaxonomyManager.calculate_severity
CalculateSeverity(likelihood, impact) ==
    FirstLevelMet(ClampScore(likelihood) * ClampScore(impact), 1)

\* values the decoded LLM answer can carry under "likelihood" and "impact":
\* the answer is json.loads of the model's text, never checked against the schema
DecimalStrings == [s \in {"3"} |-> 3]
RawScores ==
    {PyNone} \cup {PyVal("int", n) : n \in (MAX_SCORE - MaxRawScore)..MaxRawScore}
             \cup {PyVal("str", "3"), PyVal("str", "high")}

\* x or default
PyOr(x, default) ==
    IF x = PyNone THEN default
    ELSE IF x.t = "int" /\ x.v = 0 THEN default
    ELSE IF x.t = "str" /\ x.v = "" THEN default
    ELSE x

\* int(x): an int is itself, a decimal string its number, any other string ValueError
PyInt(x) ==
    IF x.t = "int" THEN [ok |-> TRUE, v |-> x.v]
    ELSE IF x.v \in DOMAIN DecimalStrings THEN [ok |-> TRUE, v |-> DecimalStrings[x.v]]
    ELSE [ok |-> FALSE, v |-> 0]

\* finding[key] = value
DictSet(d, key, value) == [k \in DOMAIN d \cup {key} |-> IF k = key THEN value ELSE d[k]]

MaxCodes == 2

\* str.upper() on the strings the model uses
Upper(x) ==
    CASE x = "fire"      -> "FIRE"
      [] x = "fire-dept" -> "FIRE-DEPT"
      [] OTHER           -> x

\* self._class_index: two of the classes of taxonomy.yaml, as the tests name them
ClassIndex ==
    [FIRE   |-> [rule_id |-> "SEC-P-008", category |-> "PHYSICAL"],
     HEIGHT |-> [rule_id |-> "SEC-P-006", category |-> "PHYSICAL"]]

\* is_valid_class
IsValidClass(class_name) == Upper(class_name) \in DOMAIN ClassIndex

\* self._measures in the order of measures.yaml: three of its measures
Measures ==
    <<[code |-> "RIG-SAFETY",    applies_to |-> {"HEIGHT"}],
      [code |-> "SFX-CLEARANCE", applies_to |-> {"FIRE"}],
      [code |-> "FIRE-DEPT",     applies_to |-> {"FIRE"}]>>

MeasureCodes == {Measures[k].code : k \in DOMAIN Measures}

\* get_measure: looked up by the upper-cased code, then by the code as given
GetMeasure(code) ==
    IF Upper(code) \in MeasureCodes
    THEN LET k == CHOOSE j \in DOMAIN Measures : Measures[j].code = Upper(code)
         IN  [code |-> Upper(code), applies_to |-> Measures[k].applies_to]
    ELSE IF code \in MeasureCodes
    THEN LET k == CHOOSE j \in DOMAIN Measures : Measures[j].code = code
         IN  [code |-> Upper(code), applies_to |-> Measures[k].applies_to]
    ELSE PyNone

\* get_measures_for_class
GetMeasuresForClass(class_name) ==
    SelectSeq(Measures, LAMBDA m : Upper(class_name) \in m.applies_to)

\* resolve_measure_codes: unknown codes are skipped
ResolveMeasureCodes(codes) ==
    LET known == SelectSeq(codes, LAMBDA code : GetMeasure(code) # PyNone)
    IN  [k \in 1..Len(known) |-> GetMeasure(known[k])]

\* a key the LLM left out of the finding
Absent == [absent |-> TRUE]

\* a raw finding: each key present or absent
RawFindingOf(risk_class, likelihood, impact, risk_level, measure_codes) ==
    LET present == (IF risk_class = Absent THEN {} ELSE {"risk_class"})
                     \cup (IF likelihood = Absent THEN {} ELSE {"likelihood"})
                     \cup (IF impact = Absent THEN {} ELSE {"impact"})
                     \cup (IF risk_level = "" THEN {} ELSE {"risk_level"})
                     \cup (IF measure_codes = Absent THEN {} ELSE {"measure_codes"})
    IN  [k \in present |-> CASE k = "risk_class"    -> risk_class
                             [] k = "likelihood"    -> likelihood
                             [] k = "impact"        -> impact
                             [] k = "measure_codes" -> measure_codes
                             [] OTHER               -> risk_level]

RawFinding(likelihood, impact, risk_level) ==
    RawFindingOf([s |-> "FIRE"], likelihood, impact, risk_level, Absent)

RECURSIVE SeqsUpTo(_, _)
SeqsUpTo(S, n) ==
    IF n = 0 THEN {<<>>}
    ELSE LET shorter == SeqsUpTo(S, n - 1)
         IN  shorter \cup {Append(q, x) : q \in {r \in shorter : Len(r) = n - 1}, x \in S}

\* what the LLM can put under risk_class and measure_codes
RawClasses == {Absent, PyNone, [s |-> "FIRE"], [s |-> "fire"], [s |-> "UNKNOWN_RISK"]}
RawCodeLists ==
    {Absent, PyNone}
      \cup {[codes |-> c] :
              c \in SeqsUpTo({"SFX-CLEARANCE", "fire-dept", "RIG-SAFETY", "NONEXISTENT"},
                             MaxCodes)}

\* the raw findings: the scores and the level vary for one class, the class and
\* the codes for one pair of scores
RawFindings ==
    {RawFinding(l, i, lvl) : l \in RawScores \cup {Absent}, i \in RawScores \cup {Absent},
                             lvl \in {"", "critical"}}
      \cup {RawFindingOf(cls, PyVal("int", 3), PyVal("int", 4), "", codes) :
              cls \in RawClasses, codes \in RawCodeLists}

\* finding.get(key) or "" for the string-valued keys
StrOrEmpty(finding, key) ==
    LET x == DictGet(finding, key, PyNone) IN IF x = PyNone THEN "" ELSE x.s

\* finding.pop("measure_codes", []) or []
PopCodes(finding) ==
    LET x == DictGet(finding, "measure_codes", PyNone) IN IF x = PyNone THEN <<>> ELSE x.codes

DictPop(d, key) == [k \in DOMAIN d \ {key} |-> d[k]]

\* validate_finding up to finding["risk_class"] = risk_class
ValidateClass(finding) ==
    LET risk_class == Upper(StrOrEmpty(finding, "risk_class"))
        category   == Upper(StrOrEmpty(finding, "category"))
        no_rule    == StrOrEmpty(finding, "rule_id") = ""
        f1 == IF IsValidClass(risk_class)
              THEN LET cls_info == ClassIndex[risk_class]
                       g == IF no_rule
                            THEN DictSet(finding, "rule_id", [s |-> cls_info.rule_id])
                            ELSE finding
                   IN  IF category = "" \/ category = "UNKNOWN"
                       THEN DictSet(g, "category", [s |-> cls_info.category])
                       ELSE g
              ELSE IF no_rule THEN DictSet(finding, "rule_id", [s |-> ""]) ELSE finding
    IN  DictSet(f1, "risk_class", [s |-> risk_class])

\* TaxonomyManager.validate_finding: the dict is changed in place, so a raise of
\* int() leaves it as ValidateClass made it
ValidateFinding(finding) ==
    LET classed    == ValidateClass(finding)
        risk_class == classed.risk_class.s
        likelihood == PyInt(PyOr(DictGet(finding, "likelihood", PyNone), PyVal("int", 1)))
        impact     == PyInt(PyOr(DictGet(finding, "impact", PyNone), PyVal("int", 1)))
    IN  IF ~likelihood.ok \/ ~impact.ok
        THEN [raised |-> "ValueError", finding |-> classed]
        ELSE LET l == ClampScore(likelihood.v)
                 i == ClampScore(impact.v)
                 scored == DictSet(DictSet(DictSet(classed, "likelihood", l), "impact", i),
                                   "risk_level", CalculateSeverity(l, i))
                 resolved == ResolveMeasureCodes(PopCodes(scored))
                 measures == IF risk_class # "" /\ IsValidClass(risk_class) /\ resolved = <<>>
                             THEN GetMeasuresForClass(risk_class)
                             ELSE resolved
             IN  [raised  |-> "",
                  finding |-> DictSet(DictPop(scored, "measure_codes"), "measures", measures)]

\* findings as analyze_scene_risk_activity returns them: validate_finding has run
EnrichedFindings ==
    {ValidateFinding(RawFinding(PyVal("int", l), PyVal("int", 4), "")).finding :
        l \in {1, 3, 5}}

\* the per-scene results the workflow collects in all_findings
SceneResults ==
    {[scene_index |-> 0, scene_number |-> "1", findings |-> fs] :
        fs \in SeqsUpTo(EnrichedFindings, MaxSceneFindings)}

\* the arguments of one call of one of the three functions
TaxonomyCalls ==
    {[op |-> "args", of |-> "calculate_severity", likelihood |-> l, impact |-> i] :
        l, i \in (MAX_SCORE - MaxRawScore)..MaxRawScore}
    \cup {[op |-> "args", of |-> "validate_finding", finding |-> raw] : raw \in RawFindings}
    \cup {[op |-> "args", of |-> "aggregate_report", all_findings |-> all_findings] :
            all_findings \in SeqsUpTo(SceneResults, MaxSceneResults)}

InitTaxonomy ==
    /\ redis = <<>>
    /\ nextKey = 1
    /\ now = 0
    /\ advances = 0
    /\ secret = "secret-a"
    /\ bufOp \in TaxonomyCalls
    /\ written = <<>>
    /\ faults = 0
    /\ wf = WfIdle
    /\ history = <<>>
    /\ jobs = <<>>
    /\ reports = <<>>
    /\ calls = NoCalls
    /\ worker = "running"
    /\ subs = NoSubs

CalculateSeverityCall ==
    /\ bufOp.op = "args" /\ bufOp.of = "calculate_severity"
    /\ bufOp' = [op |-> "calculate_severity", likelihood |-> bufOp.likelihood,
                 impact |-> bufOp.impact,
                 result |-> CalculateSeverity(bufOp.likelihood, bufOp.impact)]
    /\ UNCHANGED <<redis, nextKey, now, advances, worker, subs, secret, written, faults,
                   wf, history, jobs, reports, calls>>

ValidateFindingCall ==
    /\ bufOp.op = "args" /\ bufOp.of = "validate_finding"
    /\ LET out == ValidateFinding(bufOp.finding)
       IN  bufOp' = [op |-> "validate_finding", raw |-> bufOp.finding,
                     raised |-> out.raised, finding |-> out.finding]
    /\ UNCHANGED <<redis, nextKey, now, advances, worker, subs, secret, written, faults,
                   wf, history, jobs, reports, calls>>

\* aggregate_report_activity up to the report dict: flatten, then build_report_dict
AggregateReportCall ==
    /\ bufOp.op = "args" /\ bufOp.of = "aggregate_report"
    /\ bufOp' = [op |-> "aggregate_report", all_findings |-> bufOp.all_findings,
                 report |-> BuildReportDict(REPORT_ID, PROJECT_ID, "fdx",
                                            Flatten(bufOp.all_findings))]
    /\ UNCHANGED <<redis, nextKey, now, advances, worker, subs, secret, written, faults,
                   wf, history, jobs, reports, calls>>

NextTaxonomy == CalculateSeverityCall \/ ValidateFindingCall \/ AggregateReportCall

SpecTaxonomy == InitTaxonomy /\ [][NextTaxonomy]_vars

\* the findings of all scenes, each named by its scene and its place in the scene
ScenePlaces(all_findings) ==
    {<<s, j>> \in (DOMAIN all_findings) \X (1..(MaxSceneFindings + 1)) :
        j \in DOMAIN all_findings[s].findings}

RECURSIVE SumOver(_, _)
SumOver(f, S) ==
    IF S = {} THEN 0
    ELSE LET x == CHOOSE y \in S : TRUE IN f[x] + SumOver(f, S \ {x})

\* C28: for every list of per-scene results the aggregated report's
\* total_findings is the sum of the lengths of the scenes' findings lists, the
\* risk_summary counts sum to total_findings, all five levels and no other are
\* keys of risk_summary, and each level's count is the number of findings of the
\* scenes that carry that risk_level.
ReportTotalsMatchFindings ==
    bufOp.op = "aggregate_report" =>
        LET all_findings == bufOp.all_findings
            report       == bufOp.report
            lengths      == [s \in DOMAIN all_findings |-> Len(all_findings[s].findings)]
        IN  /\ report.total_findings = SumOver(lengths, DOMAIN all_findings)
            /\ SumOver(report.risk_summary, DOMAIN report.risk_summary)
                  = report.total_findings
            /\ DOMAIN report.risk_summary = RiskLevels
            /\ \A level \in RiskLevels :
                  report.risk_summary[level] =
                      Cardinality({p \in ScenePlaces(all_findings) :
                          all_findings[p[1]].findings[p[2]].risk_level = level})

ReportTotalsMatchFindingsWitness ==
    /\ bufOp.op = "aggregate_report"
    /\ Len(bufOp.all_findings) = 2
    /\ \A s \in DOMAIN bufOp.all_findings : Len(bufOp.all_findings[s].findings) = 2
    /\ bufOp.report.total_findings = 4
    /\ bufOp.report.risk_summary["critical"] = 2
    /\ bufOp.report.risk_summary["medium"] = 0

SeverityRank == [info |-> 0, low |-> 1, medium |-> 2, high |-> 3, critical |-> 4]

\* C29: calculate_severity clamps each argument to 1..5 and returns the highest
\* level whose threshold the product meets (critical >= 16, high >= 10,
\* medium >= 5, low >= 2, else info); raising either argument never lowers the
\* level; severity(4,4) is critical and severity(3,5) is high.
SeverityFollowsThresholds ==
    bufOp.op = "calculate_severity" =>
        LET l == IF bufOp.likelihood < 1 THEN 1
                 ELSE IF bufOp.likelihood > 5 THEN 5 ELSE bufOp.likelihood
            i == IF bufOp.impact < 1 THEN 1
                 ELSE IF bufOp.impact > 5 THEN 5 ELSE bufOp.impact
            score == l * i
        IN  /\ bufOp.result = (IF score >= 16 THEN "critical"
                               ELSE IF score >= 10 THEN "high"
                               ELSE IF score >= 5 THEN "medium"
                               ELSE IF score >= 2 THEN "low" ELSE "info")
            /\ \A more \in bufOp.likelihood..MaxRawScore :
                  SeverityRank[CalculateSeverity(more, bufOp.impact)]
                     >= SeverityRank[bufOp.result]
            /\ \A more \in bufOp.impact..MaxRawScore :
                  SeverityRank[CalculateSeverity(bufOp.likelihood, more)]
                     >= SeverityRank[bufOp.result]
            /\ (bufOp.likelihood = 4 /\ bufOp.impact = 4) => bufOp.result = "critical"
            /\ (bufOp.likelihood = 3 /\ bufOp.impact = 5) => bufOp.result = "high"

SeverityFollowsThresholdsWitness ==
    /\ bufOp.op = "calculate_severity"
    /\ bufOp.likelihood > MAX_SCORE
    /\ bufOp.impact = 3
    /\ bufOp.result = "high"

\* C30: after validate_finding, whatever the raw finding carries as likelihood
\* and impact, the finding's likelihood and impact are each in 1..5 and its
\* risk_level is calculate_severity of those two values.
ValidatedFindingInRange ==
    bufOp.op = "validate_finding" =>
        /\ bufOp.raised = ""
        /\ bufOp.finding.likelihood \in MIN_SCORE..MAX_SCORE
        /\ bufOp.finding.impact \in MIN_SCORE..MAX_SCORE
        /\ bufOp.finding.risk_level =
              CalculateSeverity(bufOp.finding.likelihood, bufOp.finding.impact)

\* the codes the raw finding gave, and the class it named
GivenCodes == PopCodes(bufOp.raw)
NamedClass == Upper(StrOrEmpty(bufOp.raw, "risk_class"))

\* C31: after validate_finding, a finding that gave measure codes has exactly
\* the records of its known codes, in the order given, as measures; a finding
\* that gave none has all measures applying to its class when the class is
\* known, and no measures when it is not.
MeasuresResolvedAsGiven ==
    (bufOp.op = "validate_finding" /\ bufOp.raised = "") =>
        LET known == SelectSeq(GivenCodes, LAMBDA c : Upper(c) \in MeasureCodes)
            measures == bufOp.finding.measures
        IN  IF GivenCodes # <<>>
            THEN /\ Len(measures) = Len(known)
                 /\ \A k \in DOMAIN known : measures[k].code = Upper(known[k])
            ELSE IF NamedClass \in DOMAIN ClassIndex
            THEN /\ \A k \in DOMAIN measures : NamedClass \in measures[k].applies_to
                 /\ \A code \in MeasureCodes :
                       (\E j \in DOMAIN Measures : /\ Measures[j].code = code
                                                   /\ NamedClass \in Measures[j].applies_to)
                          => \E k \in DOMAIN measures : measures[k].code = code
            ELSE measures = <<>>

\* ---------------------------------------------------------------------------
\* split_into_scenes on its own (parsers/pdf_scene_splitter.py)
\* ---------------------------------------------------------------------------

MaxTextLines == 4

\* a text by its lines: "H" a line SCENE_MARKER_RE matches, "T" any other line
\* with text, "B" a line of whitespace only
TextLineSeqs == UNION { [1..n -> {"H", "T", "B"}] : n \in 0..MaxTextLines }

SplitterCalls ==
    {[op |-> "args", of |-> "split_into_scenes",
      full_text |-> [lines |-> ls, content |-> "text-1"]] : ls \in TextLineSeqs}

InitSplitter ==
    /\ redis = <<>>
    /\ nextKey = 1
    /\ now = 0
    /\ advances = 0
    /\ secret = "secret-a"
    /\ bufOp \in SplitterCalls
    /\ written = <<>>
    /\ faults = 0
    /\ wf = WfIdle
    /\ history = <<>>
    /\ jobs = <<>>
    /\ reports = <<>>
    /\ calls = NoCalls
    /\ worker = "running"
    /\ subs = NoSubs

SplitIntoScenesCall ==
    /\ bufOp.op = "args" /\ bufOp.of = "split_into_scenes"
    /\ bufOp' = [op |-> "split_into_scenes", full_text |-> bufOp.full_text,
                 blocks |-> SplitIntoScenes(bufOp.full_text)]
    /\ UNCHANGED <<redis, nextKey, now, advances, worker, subs, secret, written, faults,
                   wf, history, jobs, reports, calls>>

NextSplitter == SplitIntoScenesCall

SpecSplitter == InitSplitter /\ [][NextSplitter]_vars

\* what the claim reads off a call of split_into_scenes
SplitLines == bufOp.full_text.lines
Markers == {j \in DOMAIN SplitLines : SplitLines[j] = "H"}
NonBlank == {j \in DOMAIN SplitLines : SplitLines[j] # "B"}
SceneBlocks == {k \in DOMAIN bufOp.blocks : ~bufOp.blocks[k].is_preamble}
PreambleBlocks == {k \in DOMAIN bufOp.blocks : bufOp.blocks[k].is_preamble}

\* with N >= 1 markers: N scene blocks, one preamble block before them exactly
\* when a non-blank line precedes the first marker
MarkersGiveSceneBlocks ==
    Markers # {} =>
        /\ Cardinality(SceneBlocks) = Cardinality(Markers)
        /\ Cardinality(PreambleBlocks) =
              (IF \E j \in NonBlank : \A m \in Markers : j < m THEN 1 ELSE 0)

\* indices are 0, 1, 2, ... and a preamble block is the first block
BlocksIndexedInOrder ==
    /\ \A k \in DOMAIN bufOp.blocks : bufOp.blocks[k].index = k - 1
    /\ \A k \in PreambleBlocks : k = 1

\* one preamble block whose text is the input without its leading and trailing
\* blank lines
OnePreambleOfTrimmedInput ==
    /\ Len(bufOp.blocks) = 1
    /\ bufOp.blocks[1].is_preamble
    /\ NonBlank # {}
    /\ LET first == CHOOSE j \in NonBlank : \A i \in NonBlank : j <= i
           last  == CHOOSE j \in NonBlank : \A i \in NonBlank : j >= i
       IN  bufOp.blocks[1].lines = SubSeq(SplitLines, first, last)

\* C32: split_into_scenes yields no block for an empty or all-blank text; for
\* a text with non-blank content and no scene marker exactly one preamble block
\* equal to the trimmed input; with N markers exactly N scene blocks, preceded
\* by one preamble block exactly when non-blank text comes before the first
\* marker; block indices are 0,1,2,... and a preamble block is only at index 0.
SplitBlocksFollowMarkers ==
    bufOp.op = "split_into_scenes" =>
        /\ NonBlank = {} => bufOp.blocks = <<>>
        /\ (Markers = {} /\ NonBlank # {}) => OnePreambleOfTrimmedInput
        /\ MarkersGiveSceneBlocks
        /\ BlocksIndexedInOrder

SplitBlocksFollowMarkersWitness ==
    /\ bufOp.op = "split_into_scenes"
    /\ SplitLines = <<"B", "H", "T", "H">>
    /\ Len(bufOp.blocks) = 2
    /\ bufOp.blocks[1].lines = <<"H", "T">>

\* C32 as stated: every text without a scene marker, the empty and the all-blank
\* one included, yields exactly one preamble block equal to the trimmed input.
SplitAlwaysYieldsPreambleWithoutMarkers ==
    bufOp.op = "split_into_scenes" =>
        /\ Markers = {} => OnePreambleOfTrimmedInput
        /\ MarkersGiveSceneBlocks
        /\ BlocksIndexedInOrder

\* the worker died while the last attempt was in flight: the attempt ran, its
\* completion was never recorded, and the retry policy still allows a retry
CrashedInFlight ==
    /\ bufOp.op = "activity"
    /\ bufOp.fault.at = "lost"
    /\ bufOp.attempt < MaxAttempts(bufOp.activity)

\* the result of the run that nothing interrupts: completed, or failed on a
\* script that does not parse
UninterruptedResult ==
    WfDone /\ (wf.result.status = "completed" \/ wf.result.error = "ParsingException")

\* C33: the workflow is resumable: a stage that completed is never completed a
\* second time, and after a worker crash with a stage in flight that stage is
\* retried and the job ends with the result of the uninterrupted run (unless
\* the entries expire meanwhile).
CrashedStageResumes ==
    /\ [](\A act \in Stages \ {"structure_scene_llm", "analyze_scene_risk"} :
            Cardinality({j \in DOMAIN history :
                           IsEvent(j, "ActivityTaskCompleted", act)}) <= 1)
    /\ (CrashedInFlight ~> (UninterruptedResult \/ now > 0))

\* C34: a request to the sync or async security-check endpoint that carries no
\* valid, active, unexpired API key is answered 401 and creates no job record,
\* no transient-store entry and no workflow.
UnauthenticatedRequestRejected ==
    \A s \in Submitters :
        (subs[s].pc # "idle" /\ subs[s].authorization # "valid-key") =>
            /\ subs[s].pc = "done"
            /\ subs[s].status = 401
            /\ JobIdOf(s) \notin DOMAIN jobs
            /\ subs[s].ref_key = NoKey
            /\ ~subs[s].started

\* C39: every job record created by security_check_async has its raw script in
\* the transient store and its workflow started once the request is over,
\* failures of the store write and of the workflow start included.
CommittedJobHasWorkflow ==
    \A s \in Submitters :
        (subs[s].pc = "done" /\ JobIdOf(s) \in DOMAIN jobs) =>
            /\ subs[s].ref_key # NoKey
            /\ subs[s].started

-----------------------------------------------------------------------------
(* The pdf branch: what counts as a scene *)

EventsOf(type, act) == {j \in DOMAIN history : IsEvent(j, type, act)}
AnalyzedScenes ==
    {history[j].input.scene_index : j \in EventsOf("ActivityTaskScheduled", "analyze_scene_risk")}
CompletedScenes ==
    {history[j].input.scene_index :
        j \in {k \in EventsOf("ActivityTaskScheduled", "analyze_scene_risk") :
                  k < Len(history) /\ IsEvent(k + 1, "ActivityTaskCompleted", "analyze_scene_risk")}}

\* C36: in the pdf branch the preamble block is never counted as a scene: the
\* scene_count that split_scenes reports is block_count minus one when a
\* preamble exists, and the scene refs handed to aggregate_script, the
\* total_scenes it returns and the analyze_scene_risk iterations all equal it;
\* with no scene at all total_scenes is 0, nothing is analysed and the report
\* completes with zero findings.
PreambleNeverCountedAsScene ==
    \A s \in EventsOf("ActivityTaskCompleted", "split_scenes") :
        LET split == history[s].result
        IN  /\ split.scene_count
                  = split.block_count - (IF split.has_preamble THEN 1 ELSE 0)
            /\ \A a \in EventsOf("ActivityTaskScheduled", "aggregate_script") :
                  Len(history[a].input.scene_ref_keys) = split.scene_count
            /\ \A a \in EventsOf("ActivityTaskCompleted", "aggregate_script") :
                  history[a].result.total_scenes = split.scene_count
            /\ AnalyzedScenes \subseteq 0..(split.scene_count - 1)
            /\ \A a \in EventsOf("ActivityTaskScheduled", "aggregate_report") :
                  /\ CompletedScenes = 0..(split.scene_count - 1)
                  /\ Len(history[a].input[1].all_findings) = split.scene_count
            /\ split.scene_count = 0 =>
                  /\ EventsOf("ActivityTaskScheduled", "analyze_scene_risk") = {}
                  /\ \A a \in EventsOf("ActivityTaskCompleted", "aggregate_report") :
                        history[a].result.total_findings = 0
                  /\ WfCompleted => wf.result.total_findings = 0
                  /\ (WfDone /\ faults = 0 /\ now = 0) => WfCompleted
PreambleNeverCountedAsSceneWitness ==
    /\ WfCompleted
    /\ \E s \in EventsOf("ActivityTaskCompleted", "split_scenes") :
          /\ history[s].result.has_preamble
          /\ history[s].result.scene_count >= 1
          /\ CompletedScenes = 0..(history[s].result.scene_count - 1)
PreambleOnlyRunCompletes ==
    /\ WfCompleted
    /\ \E s \in EventsOf("ActivityTaskCompleted", "split_scenes") :
          history[s].result.scene_count = 0 /\ history[s].result.block_count = 1

-----------------------------------------------------------------------------
(* What a completed run leaves in the store *)

\* no fault was injected and no TTL elapsed: every attempt was a first attempt
\* that returned
UndisturbedRun == faults = 0 /\ now = 0
LeftInStore == {k \in DOMAIN redis : Retrievable(redis, k)}

\* C37: on a run in which no attempt fails or is retried every transient entry
\* is deleted by the stage that consumes it: when the workflow returns
\* completed the raw content, extracted text, block list, scene refs and parsed
\* script are gone, and the store holds only the report package (pull mode) or
\* nothing (successful push).
CompletedRunLeavesOnlyReport ==
    (WfCompleted /\ UndisturbedRun) =>
        LeftInStore = IF wf.result.delivered = TRUE /\ DeliveryConfigOf(wf.job_data) # PyNone
                      THEN {}
                      ELSE {wf.report_result.report_ref_key}
CompletedRunLeavesOnlyReportWitness ==
    /\ WfCompleted
    /\ UndisturbedRun
    /\ wf.total_scenes >= 1
    /\ nextKey >= 4
    /\ LeftInStore # {}
PushedRunLeavesNothing ==
    WfCompleted /\ UndisturbedRun /\ LeftInStore = {}

-----------------------------------------------------------------------------
(* The TTL as a safety net *)

\* entries of earlier attempts or stages that the running stage does not read
Leftovers(r, st) == {k \in DOMAIN r : k \notin InputKeys(st)}
WithoutLeftovers(r, st) == [k \in DOMAIN r \cap InputKeys(st) |-> r[k]]

\* what the environment may answer to the running stage
StageAnswers(st) ==
    CASE st.pc = "analyze_scene_risk" -> {"finding", "nothing", "fail"}
      [] st.pc \in {"structure_scene_llm", "deliver_report"} -> {"ok", "fail"}
      [] OTHER -> {"ok"}

\* one attempt of the stage the workflow stands at, run on the store r
StageAttempt(r, st, answer) ==
    CASE st.pc = "parse_fdx" -> ParseFdxActivity(r, nextKey, st.job_data, NoFault)
      [] st.pc = "extract_pdf_text" ->
            ExtractPdfTextActivity(r, nextKey, st.job_data, NoFault)
      [] st.pc = "split_scenes" -> SplitScenesActivity(r, nextKey, st.text_result, NoFault)
      [] st.pc = "structure_scene_llm" ->
            StructureSceneLlmActivity(r, nextKey,
                                      [blocks_ref_key |-> st.split_result.blocks_ref_key,
                                       block_index |-> st.i], NoFault, answer)
      [] st.pc = "aggregate_script" ->
            AggregateScriptActivity(r, nextKey,
                                    [scene_ref_keys |-> st.scene_ref_keys,
                                     title |-> st.title,
                                     ocr_pages_skipped |-> DictGet(st.text_result,
                                                                   "ocr_pages_skipped", <<>>),
                                     blocks_ref_key |-> st.split_result.blocks_ref_key],
                                    NoFault)
      [] st.pc = "analyze_scene_risk" ->
            AnalyzeSceneRiskActivity(r, nextKey,
                                     [parsed_ref_key |-> st.parsed_ref_key,
                                      scene_index |-> st.i], NoFault, answer)
      [] st.pc = "aggregate_report" ->
            AggregateReportActivity(r, nextKey,
                                    [all_findings |-> st.all_findings,
                                     parsed_ref_key |-> st.parsed_ref_key],
                                    JobMetadataOf(st.job_data), NoFault)
      [] st.pc = "deliver_report" ->
            DeliverReportActivity(r, nextKey, st.report_result,
                                  DeliveryConfigOf(st.job_data), NoFault, answer)

Outcome(out) == [ok |-> out.ok, val |-> out.val]
OutcomeIgnoresLeftovers ==
    wf.pc \in Stages =>
        \A answer \in StageAnswers(wf) :
            Outcome(StageAttempt(redis, wf, answer))
                = Outcome(StageAttempt(WithoutLeftovers(redis, wf), wf, answer))

\* C38: every entry in the store carries a finite TTL, the default one counted
\* from the moment it was written, so once that time has passed every entry
\* that was there is gone without any delete; and what an attempt of a stage
\* returns or raises, a retry included, does not depend on the entries that
\* earlier attempts and stages left behind.
LeftoversExpireAndNeverBlock ==
    /\ []OutcomeIgnoresLeftovers
    /\ [][/\ \A k \in DOMAIN redis :
                 redis[k].exp > now /\ redis[k].exp <= now + DEFAULT_TTL
          /\ \A k \in DOMAIN redis' \ DOMAIN redis : redis'[k].exp = now' + DEFAULT_TTL
          /\ now' >= now + DEFAULT_TTL => DOMAIN redis' \cap DOMAIN redis = {}]_vars
LeftoversExpireAndNeverBlockWitness ==
    /\ bufOp.op = "activity"
    /\ bufOp.attempt >= 2
    /\ ~bufOp.raised
    /\ now > 0
    /\ Leftovers(redis, wf) # {}
ExpiredLeftoversOfFailedRun ==
    WfFailed /\ now > 0 /\ nextKey >= 3 /\ redis = <<>>

-----------------------------------------------------------------------------
(* Rate limiting: rate_limit_combined in front of the endpoints *)

MaxOutside == 2       \* requests explored per counter other than the peer's IP counter
IP_LIMIT == 60        \* limit of rate_limit_by_ip
IP_WINDOW == 60       \* window of rate_limit_by_ip
API_KEY_LIMIT == 1000     \* limit of rate_limit_by_api_key
API_KEY_WINDOW == 3600    \* window of rate_limit_by_api_key
NoExpiry == -1        \* what TTL answers for a key without expiry

\* Redis commands on a counter key
RedisIncr(r, k) ==
    IF k \in DOMAIN r
    THEN [r EXCEPT ![k].value = @ + 1]
    ELSE [x \in DOMAIN r \cup {k} |->
            IF x = k THEN [value |-> 1, exp |-> NoExpiry] ELSE r[x]]
RedisExpire(r, t, k, seconds) ==
    IF k \in DOMAIN r THEN [r EXCEPT ![k].exp = t + seconds] ELSE r
RedisTtl(r, t, k) ==
    IF k \notin DOMAIN r THEN -2
    ELSE IF r[k].exp = NoExpiry THEN NoExpiry ELSE r[k].exp - t

\* request.headers.get("X-Forwarded-For", "").split(",")[0].strip(), else the
\* peer address
ClientIp(forwarded_for, host) ==
    IF forwarded_for # <<>> /\ forwarded_for[1] # "" THEN forwarded_for[1] ELSE host
IpKey(client_ip) == [prefix |-> "rate_limit:ip:", id |-> client_ip]
ApiKeyKey(authorization) == [prefix |-> "rate_limit:api_key:", id |-> authorization]
HasBearer(authorization) == authorization \in {"unknown-key", "valid-key"}

Hosts == {"ip-a"}
ForwardedFors == {<<>>, <<"ip-b", "ip-a">>}
RateLimitAuthorizations == {"missing", "malformed", "valid-key"}

IdleRequest == [pc |-> "idle", authorization |-> "", key |-> <<>>]

InitRateLimit ==
    /\ redis = <<>>
    /\ nextKey = 1
    /\ now = 0
    /\ advances = 0
    /\ secret = "secret-a"
    /\ bufOp = NoOp
    /\ written = <<>>
    /\ faults = 0
    /\ wf = WfIdle
    /\ history = <<>>
    /\ jobs = <<>>
    /\ reports = <<>>
    /\ calls = NoCalls
    /\ worker = "running"
    /\ subs = [s \in Submitters |-> IdleRequest]

RateLimitUnchanged ==
    UNCHANGED <<nextKey, now, advances, secret, written, wf, history, jobs, reports,
                calls, worker>>

\* what a limiter does once its INCR has answered current: it goes on to set
\* the expiry, raises 429, or returns
AfterIncr(key, current, limit) ==
    IF current = 1 THEN [pc |-> "expire", status |-> 0]
    ELSE IF current > limit THEN [pc |-> "idle", status |-> 429]
    ELSE [pc |-> "returned", status |-> 0]

\* rate_limit_by_ip has returned: rate_limit_combined goes on to the API key
\* limit when the request has an Authorization header, else the request is let in
AfterIpLimit(authorization) ==
    IF authorization # "missing"
    THEN [pc |-> "api_key", authorization |-> authorization, key |-> <<>>]
    ELSE IdleRequest

RetryAfter(r, key, window) ==
    IF RedisTtl(r, now, key) > 0 THEN RedisTtl(r, now, key) ELSE window

\* rate_limit_by_ip from the arrival of the request to the answer of INCR, and
\* on to its end unless it has to set the expiry first
RateLimitByIp(s, forwarded_for, host, authorization) ==
    /\ subs[s].pc = "idle"
    /\ LET client_ip == ClientIp(forwarded_for, host)
           key       == IpKey(client_ip)
           r1        == RedisIncr(redis, key)
           current   == r1[key].value
           after     == AfterIncr(key, current, IP_LIMIT)
       IN  /\ current <= IP_LIMIT + 1
           /\ client_ip # host => current <= MaxOutside
           /\ redis' = r1
           /\ subs' = [subs EXCEPT ![s] =
                         CASE after.pc = "expire" ->
                                [pc |-> "expire", authorization |-> authorization,
                                 key |-> key]
                           [] after.pc = "returned" -> AfterIpLimit(authorization)
                           [] OTHER -> IdleRequest]
           /\ bufOp' = [op |-> "rate_limit_by_ip", s |-> s, key |-> key,
                        current |-> current,
                        status |-> IF after.pc = "returned" /\ authorization = "missing"
                                   THEN 200 ELSE after.status,
                        retry_after |-> IF after.status = 429
                                        THEN RetryAfter(r1, key, IP_WINDOW) ELSE 0]
    /\ faults' = faults
    /\ RateLimitUnchanged

\* await redis.expire(key, window) of the request that counted 1, and the rest
\* of its limiter
RateLimitExpire(s) ==
    /\ subs[s].pc = "expire"
    /\ LET key      == subs[s].key
           ip_stage == key.prefix = "rate_limit:ip:"
           next     == IF ip_stage THEN AfterIpLimit(subs[s].authorization)
                       ELSE IdleRequest
       IN  /\ redis' = RedisExpire(redis, now, key,
                                   IF ip_stage THEN IP_WINDOW ELSE API_KEY_WINDOW)
           /\ subs' = [subs EXCEPT ![s] = next]
           /\ bufOp' = [op |-> "expire", s |-> s, key |-> key, current |-> 1,
                        status |-> IF next.pc = "idle" THEN 200 ELSE 0,
                        retry_after |-> 0]
    /\ faults' = faults
    /\ RateLimitUnchanged

\* rate_limit_by_api_key
RateLimitByApiKey(s) ==
    /\ subs[s].pc = "api_key"
    /\ IF ~HasBearer(subs[s].authorization)
       THEN /\ redis' = redis
            /\ subs' = [subs EXCEPT ![s] = IdleRequest]
            /\ bufOp' = [op |-> "rate_limit_by_api_key", s |-> s, key |-> <<>>,
                         current |-> 0, status |-> 200, retry_after |-> 0]
       ELSE LET key     == ApiKeyKey(subs[s].authorization)
                r1      == RedisIncr(redis, key)
                current == r1[key].value
                after   == AfterIncr(key, current, API_KEY_LIMIT)
            IN  /\ current <= MaxOutside
                /\ redis' = r1
                /\ subs' = [subs EXCEPT ![s] =
                              IF after.pc = "expire"
                              THEN [pc |-> "expire",
                                    authorization |-> subs[s].authorization, key |-> key]
                              ELSE IdleRequest]
                /\ bufOp' = [op |-> "rate_limit_by_api_key", s |-> s, key |-> key,
                             current |-> current,
                             status |-> IF after.pc = "returned" THEN 200
                                        ELSE after.status,
                             retry_after |-> IF after.status = 429
                                             THEN RetryAfter(r1, key, API_KEY_WINDOW)
                                             ELSE 0]
    /\ faults' = faults
    /\ RateLimitUnchanged

\* the request ends between INCR and EXPIRE: the connection to Redis fails on
\* the EXPIRE or the handler is cancelled while it awaits
RateLimitExpireFails(s) ==
    /\ subs[s].pc = "expire"
    /\ faults < MaxFaults
    /\ faults' = faults + 1
    /\ subs' = [subs EXCEPT ![s] = IdleRequest]
    /\ bufOp' = [op |-> "expire_failed", s |-> s, key |-> subs[s].key, current |-> 1,
                 status |-> 500, retry_after |-> 0]
    /\ redis' = redis
    /\ RateLimitUnchanged

\* one IP window of time passes; Redis drops the keys whose expiry is reached
WindowPasses ==
    /\ advances < MaxAdvances
    /\ advances' = advances + 1
    /\ now' = now + IP_WINDOW
    /\ redis' = [k \in {x \in DOMAIN redis :
                          redis[x].exp = NoExpiry \/ redis[x].exp > now + IP_WINDOW}
                   |-> redis[k]]
    /\ bufOp' = NoOp
    /\ UNCHANGED <<nextKey, secret, written, faults, wf, history, jobs, reports, calls,
                   worker, subs>>

NextRateLimit ==
    \/ \E s \in Submitters, forwarded_for \in ForwardedFors, host \in Hosts,
          authorization \in RateLimitAuthorizations :
         RateLimitByIp(s, forwarded_for, host, authorization)
    \/ \E s \in Submitters : RateLimitExpire(s)
    \/ \E s \in Submitters : RateLimitByApiKey(s)
    \/ \E s \in Submitters : RateLimitExpireFails(s)
    \/ WindowPasses

SpecRateLimit == InitRateLimit /\ [][NextRateLimit]_vars

IpKeys == {k \in DOMAIN redis : k.prefix = "rate_limit:ip:"}
ExpirePending(k) == \E s \in Submitters : subs[s].pc = "expire" /\ subs[s].key = k
IpLimitAnswers ==
    bufOp.op = "rate_limit_by_ip" =>
        /\ bufOp.status = 429 <=> bufOp.current > IP_LIMIT
        /\ bufOp.status = 429 => bufOp.retry_after \in 1..IP_WINDOW

\* C40: IP rate limiting admits at most 60 requests per client IP in one window
\* under any interleaving and answers 429 to the rest; the window counter always
\* carries an expiry (at the latest once the request that created it has set
\* it), so the window ends and the IP is admitted again.
IpWindowCounterCarriesExpiry ==
    /\ IpLimitAnswers
    /\ \A k \in IpKeys : redis[k].exp = NoExpiry => ExpirePending(k)

====
